---- MODULE Spec2Model ----
(***************************************************************************)
(* Frame2IMG: the extraction worker FrameExtractorWorker (src/app.py).     *)
(*                                                                         *)
(* One worker thread executes run(); the UI thread may call cancel() at    *)
(* any moment; the external FFmpeg process started by _run_ffmpeg_nvdec    *)
(* runs concurrently with the worker and writes frame files on its own.    *)
(* run() is split into actions at its blocking calls (reading a progress   *)
(* line, waiting for the process, reading a frame, writing a frame), the   *)
(* only places where the other two parties can interleave observably.      *)
(*                                                                         *)
(* Times are held in milliseconds (the code holds float seconds and        *)
(* multiplies by 1000.0 where it needs milliseconds); frame rates are      *)
(* whole frames per second.  None (-1) stands for Python's None.           *)
(***************************************************************************)
EXTENDS Integers, Sequences, FiniteSets, TLC

\* ---------------------------------------------------------------- bounds
MaxFrames == 2      \* longest video / longest decoder output, in frames
MaxHwLines == 1     \* progress lines the decoder prints before its last one
MaxRuns == 2        \* successive runs for the same video and output root
MaxPre == 1         \* directory names that may exist before the first run
MaxSwFrames == 10   \* longest video decoded by the software backend alone
MaxPlanFrames == 3  \* largest frame count reported to the planner
MaxPlanFps == 2     \* largest frame rate reported to the planner
MaxPlanHalfSec == 6 \* longest time given to the planner, in half seconds
MaxPlanN == 3       \* largest every-N setting given to the planner
MaxQtRuns == 2      \* workers one main window makes
MaxTkRuns == 3      \* extraction threads one Tk application makes
MaxTkFrames == 2    \* longest video read by a Tk extraction thread
MaxUiFrames == 0    \* longest video when the Tk application runs repeatedly

\* ------------------------------------------------------ program constants
throttle == 10
PadUnknown == 6
MsPerSec == 1000

None == -1
FrameMs == MsPerSec  \* the modelled videos run at one frame per second

StartTimes == {None, 1000}
EndTimes == {None, 0, 2000}
EveryN == {1, 2}
EveryT == {0, 1000}
FpsVals == {0, 1}               \* 0: the probe reported no frame rate
DirIdx == 0 .. (MaxPre + MaxRuns)

\* requests for the software-only runs: a start the seek may miss
SwStartTimes == {None, 1000, 2000}

\* inputs of the planner
PlanTimes == {None} \cup {500 * i : i \in 0 .. MaxPlanHalfSec}
PlanEveryN == 1 .. MaxPlanN
PlanEveryT == {0, 500, 1000}
PlanFrames == 0 .. MaxPlanFrames
PlanFps == 0 .. MaxPlanFps

VARIABLES
    \* the request held by the worker (FrameExtractorWorker.__init__)
    start_time, end_time, sample_every_n, sample_every_t,
    precision_count,    \* the caller asked for the precise frame count
    \* facts of the file system the request meets
    video_exists,       \* self.video_path.exists()
    dir_creatable,      \* out_dir.mkdir() succeeds
    video_max,          \* the video holds at most this many frames
    \* the worker
    pc,                 \* position of run()
    cancel,             \* self._cancel
    meta,               \* what probe_video_metadata_with_ffprobe returned
    precise,            \* what the precise recount returned, None: not called
    plan_total_full,    \* total_full: the whole video's frame count used
    total_frames_cv,    \* CAP_PROP_FRAME_COUNT, None while it was not asked
    fps_val, frames_in_range, frames_planned, pad,
    out_dir,            \* index k of <stem>_frames_k (0: no suffix), or None
    saved, frame_index, end_limit_frames, end_limit_ms, next_ms, seek_ms,
    handles,            \* the OpenCV captures of run() that are open
    \* the external decoder process
    proc,               \* "none", "running", "terminating", "exited"
    returncode, hwWritten, procLines, pipeFinal,
    vf_filters,         \* the sampling filters of the decoder's command line
    \* the file system under the output root
    dirs,               \* names that exist
    dirFiles,           \* frame files in each directory
    \* signals emitted by the run, in order
    events,
    \* observation only
    run_no, backends, cancelSeenBy, writesAfterCancel, termFiles,
    startDirs, startFiles, allocated,
    plans,              \* how many times the planner ran in this run
    swFiles,            \* indices of the files the software backend wrote
    \* the main window of the Qt application (MainWindow)
    start_btn,          \* start_btn.isEnabled()
    cancel_btn,         \* cancel_btn.isEnabled()
    mw_worker,          \* self._worker: a worker's number, or None
    workers,            \* each worker made by on_start: where it is
    worker_cancel,      \* the workers whose cancel() was called
    signals,            \* terminal signals queued for the main thread
    closed,             \* the window was closed (or never opened)
    \* the Tk application (FrameExtractorApp)
    tk_video_max,       \* the selected video holds at most this many frames
    dialog,             \* the askyesno box that is open: "none", "cancel", "exit"
    set_on_none,        \* a handler called set() on a cancel_event of None
    start_button,       \* "normal" or "disabled"
    cancel_event,       \* self.cancel_event: "none", "clear" or "set"
    close_after_cancel, \* self._close_after_cancel
    skip_existing_current,
    posts,              \* callbacks queued with root.after(0, ...)
    threads,            \* the locals of each extraction thread
    out_files,          \* indices of the frame files in the output folder
    writes,             \* the imwrite calls that returned true, in order
    handled,            \* threads whose _enable_start_button has run
    destroyed           \* root.destroy() was called (or no root was made)

reqVars == <<start_time, end_time, sample_every_n, sample_every_t,
             video_exists, dir_creatable, video_max, precision_count>>
planVars == <<meta, precise, plan_total_full, total_frames_cv, fps_val,
              frames_in_range, frames_planned, pad, plans>>
swVars == <<frame_index, end_limit_frames, end_limit_ms, next_ms, seek_ms>>
procVars == <<proc, returncode, hwWritten, procLines, pipeFinal>>
fsVars == <<dirs, dirFiles>>
obsVars == <<run_no, backends, cancelSeenBy, writesAfterCancel, termFiles,
             startDirs, startFiles, allocated, swFiles>>

\* what the probe may report for a video of at most video_max frames
MetaFrames == {0, video_max}    \* 0: the probe reported no frame count
MetaDurations == {None, video_max * FrameMs}
\* what the precise recount may answer: 0 when it could not count, or a
\* count that differs from the one of the container's header
PreciseFrames == {0, video_max - 1}
qtVars == <<start_btn, cancel_btn, mw_worker, workers, worker_cancel,
            signals, closed>>
tkVars == <<tk_video_max, dialog, set_on_none, start_button, cancel_event, close_after_cancel,
            skip_existing_current, posts, threads, out_files, writes,
            handled, destroyed>>
workerVars == <<reqVars, pc, cancel, planVars, out_dir, saved, swVars,
                handles, procVars, vf_filters, fsVars, events, obsVars>>
vars == <<workerVars, qtVars, tkVars>>

\* ---------------------------------------------------------------- helpers
Max(a, b) == IF a >= b THEN a ELSE b
Min(a, b) == IF a <= b THEN a ELSE b

\* Python's round() of the quotient a / b (ties go to the even neighbour).
RoundDiv(a, b) ==
    LET q == a \div b
        r == a % b
    IN  IF 2 * r < b THEN q
        ELSE IF 2 * r > b THEN q + 1
        ELSE IF q % 2 = 0 THEN q ELSE q + 1

\* math.ceil(a / b) and math.floor(a / b) for a >= 0, b > 0
CeilDiv(a, b) == (a + b - 1) \div b
FloorDiv(a, b) == a \div b

\* len(str(n)) for n >= 0
RECURSIVE Digits(_)
Digits(n) == IF n < 10 THEN 1 ELSE 1 + Digits(n \div 10)

Last(s) == s[Len(s)]

\* the signals
Progress(cur, total) == <<"progress", cur, total>>
Message(text) == <<"message", text>>
Finished(success, canceled, dir, n) == <<"finished", success, canceled, dir, n>>
Error(kind) == <<"error", kind>>

IsProgress(e) == e[1] = "progress"
IsMessage(e) == e[1] = "message"
IsFinished(e) == e[1] = "finished"
IsError(e) == e[1] = "error"
IsTerminal(e) == IsFinished(e) \/ IsError(e)

Files == IF out_dir = None THEN {} ELSE dirFiles[out_dir]

\* ------------------------------------------------------------------ probe
\* the dict probe_video_metadata_with_ffprobe starts from: every value
\* missing (frames 0, fps and duration None; a missing rate is held as 0)
MetaDefault == [frames |-> 0, fps |-> 0, duration |-> None]

\* how the call of ffprobe went: no executable found; the process raised
\* (non-zero exit, check=True); its output was not JSON; the output named
\* no video stream; the output had a stream
ProbeFailures == {"no_tool", "tool_failed", "bad_output"}
ProbeOutcomes == ProbeFailures \cup {"no_stream", "ok"}

\* probe_video_metadata_with_ffprobe: nb, fps and dur are the fields of the
\* tool's answer, 0 / 0 / None where a field is missing or not a number; a
\* missing frame count is estimated as round(duration * fps)
ProbeMeta(outcome, nb, fps, dur) ==
    IF outcome \in ProbeFailures THEN MetaDefault
    ELSE LET frames0 == IF outcome = "ok" THEN nb ELSE 0
             fps0 == IF outcome = "ok" THEN fps ELSE 0
             est == IF dur # None THEN RoundDiv(dur * fps0, MsPerSec) ELSE 0
         IN  [frames |-> IF frames0 = 0 /\ dur # None /\ dur > 0 /\ fps0 > 0
                            /\ est > 0
                         THEN est ELSE frames0,
              fps |-> fps0,
              duration |-> dur]

\* ---------------------------------------------------------------- planner
\* start_s = self.start_time or 0.0
StartS(st) == IF st = None THEN 0 ELSE st

\* end_s = self.end_time if it is set and greater than start_s, else None
EndS(st, et) == IF et # None /\ et > StartS(st) THEN et ELSE None

HasWindow(st, et) == st # None \/ EndS(st, et) # None

\* frames in the window, from the probed total and frame rate
FramesInRangeProbe(total_full, st, et, fps) ==
    IF HasWindow(st, et) /\ fps > 0
    THEN LET sf == Max(0, RoundDiv(StartS(st) * fps, MsPerSec))
             ef0 == IF EndS(st, et) # None
                    THEN RoundDiv(EndS(st, et) * fps, MsPerSec)
                    ELSE total_full
             ef == IF total_full > 0 THEN Min(ef0, total_full) ELSE ef0
         IN  Max(0, ef - sf)
    ELSE total_full

\* the OpenCV count used when the probe left the count unknown; cv_count is
\* CAP_PROP_FRAME_COUNT, 0 also when the capture did not open
FramesInRangeCv(fir, st, et, fps, cv_count) ==
    IF fir > 0 THEN fir
    ELSE IF cv_count > 0
         THEN IF HasWindow(st, et) /\ fps > 0
              THEN LET sf == Max(0, RoundDiv(StartS(st) * fps, MsPerSec))
                       ef == IF EndS(st, et) # None
                             THEN RoundDiv(EndS(st, et) * fps, MsPerSec)
                             ELSE cv_count
                   IN  Max(0, Min(cv_count, ef) - sf)
              ELSE cv_count
         ELSE 0

FramesInRange(total_full, st, et, fps, cv_count) ==
    FramesInRangeCv(FramesInRangeProbe(total_full, st, et, fps),
                    st, et, fps, cv_count)

\* variant: the every-N estimate is rounded down
FramesPlannedFloors(fir, st, et, n, t, duration) ==
    IF t > 0
    THEN LET window_dur ==
                 IF EndS(st, et) # None
                 THEN Max(0, EndS(st, et) - StartS(st))
                 ELSE IF duration # None
                      THEN Max(0, duration - StartS(st))
                      ELSE None
         IN  IF window_dur # None /\ window_dur > 0
             THEN Max(1, FloorDiv(window_dur, t) + 1)
             ELSE 0
    ELSE IF n > 1 /\ fir > 0
         THEN FloorDiv(fir, n)
         ELSE fir

\* variant: a window of length 0 is planned like any other
FramesPlannedZeroWindow(fir, st, et, n, t, duration) ==
    IF t > 0
    THEN LET window_dur ==
                 IF EndS(st, et) # None
                 THEN Max(0, EndS(st, et) - StartS(st))
                 ELSE IF duration # None
                      THEN Max(0, duration - StartS(st))
                      ELSE None
         IN  IF window_dur # None /\ window_dur >= 0
             THEN Max(1, FloorDiv(window_dur, t) + 1)
             ELSE 0
    ELSE IF n > 1 /\ fir > 0
         THEN CeilDiv(fir, n)
         ELSE fir

\* expected number of output frames after sampling; duration is None when
\* the probe reported none
FramesPlanned(fir, st, et, n, t, duration) ==
    IF t > 0
    THEN LET window_dur ==
                 IF EndS(st, et) # None
                 THEN Max(0, EndS(st, et) - StartS(st))
                 ELSE IF duration # None
                      THEN Max(0, duration - StartS(st))
                      ELSE None
         IN  IF window_dur # None /\ window_dur > 0
             THEN Max(1, FloorDiv(window_dur, t) + 1)
             ELSE 0
    ELSE IF n > 1 /\ fir > 0
         THEN CeilDiv(fir, n)
         ELSE fir

PadWidth(fp) == IF fp > 0 THEN Digits(fp) ELSE PadUnknown

\* ------------------------------------------------------------- file names
\* str(n): the decimal digits of n >= 0, most significant first
RECURSIVE DigitSeq(_)
DigitSeq(n) == IF n < 10 THEN <<n>> ELSE Append(DigitSeq(n \div 10), n % 10)

\* format(n, "0{w}d"): zeros are put in front up to a width of w, a longer
\* number is left as it is
ZeroPad(n, w) ==
    LET ds == DigitSeq(n)
        fill == w - Len(ds)
    IN  IF fill <= 0 THEN ds
        ELSE [i \in 1 .. w |-> IF i <= fill THEN 0 ELSE ds[i - fill]]

\* the character after the number, the "." of the extension, sorts below
\* every digit
DotCode == -1

\* f"frame_{i:0{pad}d}.{ext}" from the number on; what differs between two
\* names of a run
FrameName(i, w) == Append(ZeroPad(i, w), DotCode)

\* a < b as strings
LexLess(a, b) ==
    \E k \in 1 .. Len(a) + 1 :
       /\ k <= Len(b)
       /\ \A j \in 1 .. k - 1 : a[j] = b[j]
       /\ k = Len(a) + 1 \/ a[k] < b[k]

\* ------------------------------------------------------- output directory
\* the while loop over <stem>_frames, <stem>_frames_1, ...: name 0 is the
\* unsuffixed one
RECURSIVE FirstFree(_, _)
FirstFree(k, existing) ==
    IF k \notin existing THEN k ELSE FirstFree(k + 1, existing)

\* variant: the unsuffixed name is taken whether or not it exists
AllocateDirReuse(existing) == 0

AllocateDir(existing) == FirstFree(0, existing)

\* ------------------------------------------------------------------- Init
PreFiles == {1}     \* what a directory left by an earlier session holds

\* the state right after the worker has been constructed
\* no main window is open
NoWindow ==
    /\ start_btn = FALSE /\ cancel_btn = FALSE
    /\ mw_worker = None
    /\ workers = [w \in 1 .. MaxQtRuns |-> "none"]
    /\ worker_cancel = {}
    /\ signals = <<>>
    /\ closed = TRUE

\* the locals of an extraction thread that was not started
NoThread ==
    [pc |-> "none", video_capture |-> "none", frame_index |-> 0,
     saved_count |-> 0, error_message |-> FALSE]

\* no Tk application runs
NoTkApp ==
    /\ tk_video_max = 0
    /\ dialog = "none"
    /\ set_on_none = FALSE
    /\ start_button = "disabled"
    /\ cancel_event = "none"
    /\ close_after_cancel = FALSE
    /\ skip_existing_current = FALSE
    /\ posts = <<>>
    /\ threads = [t \in 1 .. MaxTkRuns |-> NoThread]
    /\ out_files = {}
    /\ writes = <<>>
    /\ handled = {}
    /\ destroyed = TRUE

\* the fields of a worker that has not run
WorkerFields ==
    /\ cancel = FALSE
    /\ handles = {}
    /\ meta = MetaDefault /\ total_frames_cv = None /\ plans = 0
    /\ precise = None /\ plan_total_full = 0
    /\ fps_val = 0 /\ frames_in_range = 0 /\ frames_planned = 0 /\ pad = 0
    /\ out_dir = None
    /\ saved = 0 /\ frame_index = 0
    /\ end_limit_frames = None /\ end_limit_ms = None
    /\ next_ms = None /\ seek_ms = 0
    /\ proc = "none" /\ returncode = 0 /\ hwWritten = 0
    /\ procLines = 0 /\ pipeFinal = FALSE
    /\ vf_filters = <<>>
    /\ dirFiles = [d \in DirIdx |-> IF d \in dirs THEN PreFiles ELSE {}]
    /\ events = <<>>
    /\ run_no = 1
    /\ backends = <<>>
    /\ cancelSeenBy = "none"
    /\ writesAfterCancel = 0
    /\ swFiles = {}
    /\ termFiles = None
    /\ startDirs = dirs
    /\ startFiles = dirFiles
    /\ allocated = <<>>

\* FrameExtractorWorker.__init__: a worker on its own
Constructed ==
    /\ pc = "idle"
    /\ WorkerFields
    /\ NoWindow
    /\ NoTkApp

\* no worker was made
NoWorker ==
    /\ start_time = None /\ end_time = None
    /\ sample_every_n = 1 /\ sample_every_t = 0
    /\ precision_count = FALSE
    /\ video_exists = TRUE /\ dir_creatable = TRUE
    /\ video_max = MaxFrames
    /\ dirs = {}
    /\ pc = "none"
    /\ WorkerFields

\* any request, on an output root that is fresh or holds one earlier output
Init ==
    /\ start_time \in StartTimes
    /\ end_time \in EndTimes
    /\ sample_every_n \in EveryN
    /\ sample_every_t \in EveryT
    /\ video_exists \in BOOLEAN
    /\ dir_creatable \in BOOLEAN
    /\ dirs \in {{}, {0}}
    /\ video_max = MaxFrames
    /\ precision_count = FALSE
    /\ Constructed

\* a request that passes validation, on a fresh output root
InitFair ==
    /\ start_time = None
    /\ end_time \in EndTimes
    /\ sample_every_n \in EveryN
    /\ sample_every_t \in EveryT
    /\ video_exists = TRUE
    /\ dir_creatable = TRUE
    /\ dirs = {}
    /\ video_max = MaxFrames
    /\ precision_count = FALSE
    /\ Constructed

\* the whole video, on an output root holding any earlier outputs
InitRuns ==
    /\ start_time = None
    /\ end_time = None
    /\ sample_every_n \in EveryN
    /\ sample_every_t = 0
    /\ video_exists = TRUE
    /\ dir_creatable \in BOOLEAN
    /\ dirs \in SUBSET (0 .. MaxPre - 1)
    /\ video_max = MaxFrames
    /\ precision_count = FALSE
    /\ Constructed

\* a valid request on a machine without the hardware decoder, for a video
\* of up to MaxSwFrames frames
InitSw ==
    /\ start_time \in SwStartTimes
    /\ end_time \in EndTimes
    /\ sample_every_n \in EveryN
    /\ sample_every_t \in EveryT
    /\ video_exists = TRUE
    /\ dir_creatable = TRUE
    /\ dirs = {}
    /\ video_max = MaxSwFrames
    /\ precision_count \in BOOLEAN
    /\ Constructed

\* any request handed to the planner
InitPlan ==
    /\ start_time \in PlanTimes
    /\ end_time \in PlanTimes
    /\ sample_every_n \in PlanEveryN
    /\ sample_every_t \in PlanEveryT
    /\ video_exists = TRUE
    /\ dir_creatable = TRUE
    /\ dirs = {}
    /\ video_max = MaxPlanFrames
    /\ precision_count \in BOOLEAN
    /\ Constructed

\* ----------------------------------------------------------------- cancel
\* FrameExtractorWorker.cancel, called from the UI thread
Cancel ==
    /\ pc \notin {"none", "done"}
    /\ ~cancel
    /\ cancel' = TRUE
    /\ UNCHANGED <<reqVars, handles, qtVars, tkVars, vf_filters, pc, planVars,
                   out_dir,
                   saved, swVars,
                   procVars,
                   fsVars, events, obsVars>>

\* -------------------------------------------------------------------- run
\* variant: the handler emits the error and releases nothing
FailKeepsHandles(kind) ==
    /\ handles' = handles
    /\ events' = Append(events, Error(kind))
    /\ pc' = "done"

\* lines 831-847, the outer "except Exception": release the captures that
\* exist, emit error
Fail(kind) ==
    /\ handles' = {}
    /\ events' = Append(events, Error(kind))
    /\ pc' = "done"

\* variant: the precise recount is made whether or not it was asked for
PlanWithAlwaysPrecise(m, cvs, precs) ==
    \E pr \in precs :
       LET tf == IF pr > 0 THEN pr ELSE m.frames
           fir0 == FramesInRangeProbe(tf, start_time, end_time, m.fps)
       IN  \E cv \in (IF fir0 > 0 THEN {None} ELSE cvs) :
              LET fir == FramesInRangeCv(fir0, start_time, end_time, m.fps, cv)
                  fp == FramesPlanned(fir, start_time, end_time,
                                      sample_every_n, sample_every_t,
                                      m.duration)
              IN  /\ meta' = m
                  /\ precise' = pr
                  /\ plan_total_full' = tf
                  /\ total_frames_cv' = cv
                  /\ handles' = IF cv = None THEN handles
                                ELSE (handles \cup {"cap_count"})
                                        \ {"cap_count"}
                  /\ fps_val' = m.fps
                  /\ frames_in_range' = fir
                  /\ frames_planned' = fp
                  /\ plans' = plans + 1

\* lines 603-672: the plan computed from the probe's answer m.  The precise
\* recount is made only on request and answers one of precs, 0 when it
\* could not count; without a positive answer the probe's count is used.
\* The OpenCV count, one of cvs, is asked for only when the count in range
\* is not positive
PlanWith(m, cvs, precs) ==
    \E pr \in (IF precision_count THEN precs ELSE {None}) :
       LET tf == IF pr # None /\ pr > 0 THEN pr ELSE m.frames
           fir0 == FramesInRangeProbe(tf, start_time, end_time, m.fps)
       IN  \E cv \in (IF fir0 > 0 THEN {None} ELSE cvs) :
              LET fir == FramesInRangeCv(fir0, start_time, end_time, m.fps, cv)
                  fp == FramesPlanned(fir, start_time, end_time,
                                      sample_every_n, sample_every_t,
                                      m.duration)
              IN  /\ meta' = m
                  /\ precise' = pr
                  /\ plan_total_full' = tf
                  /\ total_frames_cv' = cv
                  /\ handles' = IF cv = None THEN handles
                                ELSE (handles \cup {"cap_count"})
                                        \ {"cap_count"}
                  /\ fps_val' = m.fps
                  /\ frames_in_range' = fir
                  /\ frames_planned' = fp
                  /\ plans' = plans + 1

\* variant: a failed call of the probe tool is not caught
RunStartProbeRaises ==
    /\ pc = "idle"
    /\ IF ~video_exists
       THEN /\ Fail("not_found")
            /\ termFiles' = 0
            /\ UNCHANGED planVars
       ELSE \E outcome \in ProbeOutcomes, nb \in MetaFrames,
               fps \in FpsVals, dur \in MetaDurations :
               IF outcome \in ProbeFailures
               THEN /\ Fail("probe")
                    /\ termFiles' = 0
                    /\ UNCHANGED planVars
               ELSE /\ PlanWith(ProbeMeta(outcome, nb, fps, dur), MetaFrames,
                           PreciseFrames)
                    /\ pc' = "alloc"
                    /\ UNCHANGED <<pad, events, termFiles>>
    /\ UNCHANGED <<reqVars, qtVars, tkVars, vf_filters, cancel, out_dir,
                   saved, swVars,
                   procVars, fsVars,
                   run_no, backends, cancelSeenBy, writesAfterCancel, swFiles,
                   startDirs, startFiles, allocated>>

\* lines 596-672: existence check, probe, planning
RunStart ==
    /\ pc = "idle"
    /\ IF ~video_exists
       THEN /\ Fail("not_found")
            /\ termFiles' = 0
            /\ UNCHANGED planVars
       ELSE /\ \E outcome \in ProbeOutcomes, nb \in MetaFrames,
                  fps \in FpsVals, dur \in MetaDurations :
                  PlanWith(ProbeMeta(outcome, nb, fps, dur), MetaFrames,
                           PreciseFrames)
            /\ pc' = "alloc"
            /\ UNCHANGED <<pad, events, termFiles>>
    /\ UNCHANGED <<reqVars, qtVars, tkVars, vf_filters, cancel, out_dir,
                   saved, swVars,
                   procVars, fsVars,
                   run_no, backends, cancelSeenBy, writesAfterCancel, swFiles,
                   startDirs, startFiles, allocated>>

\* lines 601-672 alone: the planner applied to any answer of the probe and
\* any OpenCV count
PlanStep ==
    /\ pc = "idle"
    /\ \E nb \in PlanFrames, fps \in PlanFps, dur \in PlanTimes :
          PlanWith(ProbeMeta("ok", nb, fps, dur), PlanFrames, PlanFrames)
    /\ pc' = "alloc"
    /\ UNCHANGED <<reqVars, qtVars, tkVars, vf_filters, cancel, pad, out_dir,
                   saved, swVars,
                   procVars,
                   fsVars, events, obsVars>>

\* variant: a failed mkdir is swallowed and the run goes on
AllocateIgnoresMkdir ==
    /\ pc = "alloc"
    /\ LET d == AllocateDir(dirs)
       IN  /\ out_dir' = d
           /\ dirs' = IF dir_creatable THEN dirs \cup {d} ELSE dirs
           /\ allocated' = Append(allocated, d)
           /\ pad' = PadWidth(frames_planned)
           /\ pc' = "select"
           /\ UNCHANGED <<events, termFiles>>
    /\ meta' = MetaDefault /\ total_frames_cv' = None
    /\ plan_total_full' = 0
    /\ UNCHANGED <<reqVars, handles, qtVars, tkVars, vf_filters, cancel,
                   precise,
                   plans, fps_val,
                   frames_in_range,
                   frames_planned, saved, swVars, procVars, dirFiles, run_no,
                   backends, cancelSeenBy, writesAfterCancel, swFiles,
                   startDirs, startFiles>>

\* lines 674-685: allocate the output directory, create it, pad width.  The
\* probe's answer and the frame counts are locals that are not read again
\* from here on (the frame rate lives on in fps_val); they are cleared
Allocate ==
    /\ pc = "alloc"
    /\ IF dir_creatable
       THEN LET d == AllocateDir(dirs)
            IN  /\ out_dir' = d
                /\ dirs' = dirs \cup {d}
                /\ allocated' = Append(allocated, d)
                /\ pad' = PadWidth(frames_planned)
                /\ pc' = "select"
                /\ UNCHANGED <<events, termFiles, handles>>
       ELSE /\ Fail("mkdir")
            /\ termFiles' = 0
            /\ UNCHANGED <<out_dir, dirs, allocated, pad>>
    /\ meta' = MetaDefault /\ total_frames_cv' = None
    /\ plan_total_full' = 0
    /\ UNCHANGED <<reqVars, qtVars, tkVars, vf_filters, cancel, precise,
                   plans, fps_val,
                   frames_in_range,
                   frames_planned, saved, swVars, procVars, dirFiles, run_no,
                   backends, cancelSeenBy, writesAfterCancel, swFiles,
                   startDirs, startFiles>>

\* ----------------------------------------------------- hardware backend
LineAvailable ==
    \/ proc = "running" /\ procLines < MaxHwLines
    \/ pipeFinal

ConsumeLine ==
    IF pipeFinal
    THEN /\ pipeFinal' = FALSE
         /\ procLines' = procLines
    ELSE /\ pipeFinal' = FALSE
         /\ procLines' = procLines + 1

\* lines 474-486: the sampling filters of the decoder's command line; the
\* fixed-rate filter is tried first and the modulo selector only otherwise
VfFiltersBoth(n, t) ==
    (IF t > 0 THEN <<"fps">> ELSE <<>>) \o (IF n > 1 THEN <<"select">> ELSE <<>>)

VfFilters(n, t) ==
    IF t > 0 THEN <<"fps">>
    ELSE IF n > 1 THEN <<"select">>
    ELSE <<>>

\* variant: the parsed frame counter is reported as it is
HwProgressUnclamped(n, total_frames) == Progress(n, total_frames)

\* the value reported for a parsed frame counter (lines 547-550)
HwProgress(n, total_frames) ==
    IF total_frames > 0
    THEN Progress(Min(n, total_frames), total_frames)
    ELSE Progress(n, 0)

\* lines 688-689 and 457-529: choose the backend; the hardware backend
\* announces itself, reports progress(0, total) and launches the process
\* hw_avail: ffmpeg was found and lists NVDEC (lines 688-689)
Select(hw_avail) ==
    /\ pc = "select"
    /\ IF hw_avail
       THEN /\ backends' = Append(backends, "hw")
            /\ vf_filters' = VfFilters(sample_every_n, sample_every_t)
            /\ \E popen_ok \in BOOLEAN :
                  IF popen_ok
                  THEN /\ events' = events \o
                            <<Message("gpu"), Progress(0, frames_planned)>>
                       /\ proc' = "running"
                       /\ returncode' = None
                       /\ hwWritten' = 0
                       /\ procLines' = 0
                       /\ pipeFinal' = FALSE
                       /\ saved' = 0
                       /\ pc' = "hw_loop"
                  ELSE /\ events' = events \o
                            <<Message("gpu"), Progress(0, frames_planned),
                              Message("fallback")>>
                       /\ pc' = "sw_open"
                       /\ UNCHANGED <<procVars, saved>>
       ELSE /\ pc' = "sw_open"
            /\ UNCHANGED <<backends, events, procVars, saved, vf_filters>>
    /\ UNCHANGED <<reqVars, handles, qtVars, tkVars, cancel, planVars,
                   out_dir, swVars,
                   fsVars, run_no,
                   cancelSeenBy, writesAfterCancel, swFiles, termFiles,
                   startDirs,
                   startFiles, allocated>>

SelectBackend == \E hw_avail \in BOOLEAN : Select(hw_avail)

\* a machine without ffmpeg or without NVDEC
SelectSoftware == Select(FALSE)

\* lines 534-553: one line of the progress stream has been read.  The lines
\* modelled are the "frame=" lines, which carry the number of files written
\* so far; any other line is the same cancel test and changes nothing else
HwReadLine ==
    /\ pc = "hw_loop"
    /\ LineAvailable
    /\ ConsumeLine
    /\ IF cancel
       THEN /\ proc' = IF proc = "running" THEN "terminating" ELSE proc
            /\ cancelSeenBy' = "hw"
            /\ pc' = "hw_wait"
            /\ UNCHANGED <<saved, events>>
       ELSE /\ saved' = hwWritten
            /\ events' = Append(events, HwProgress(hwWritten, frames_planned))
            /\ UNCHANGED <<proc, cancelSeenBy, pc>>
    /\ UNCHANGED <<reqVars, handles, qtVars, tkVars, vf_filters, cancel,
                   planVars,
                   out_dir, swVars,
                   returncode,
                   hwWritten, fsVars, run_no, backends, writesAfterCancel,
                   swFiles,
                   termFiles, startDirs, startFiles, allocated>>

\* reading the stream raises: the finally clause closes the pipes and the
\* exception reaches run(), lines 702-705
HwReadException ==
    /\ pc = "hw_loop"
    /\ LineAvailable
    /\ events' = Append(events, Message("fallback"))
    /\ pipeFinal' = FALSE
    /\ pc' = "sw_open"
    /\ UNCHANGED <<reqVars, handles, qtVars, tkVars, vf_filters, cancel,
                   planVars,
                   out_dir, saved,
                   swVars, proc,
                   returncode, hwWritten, procLines, fsVars, obsVars>>

\* variant: a failed decoder is started again instead of falling back
HwAfterLoopRetry ==
    /\ pc \in {"hw_loop", "hw_wait"}
    /\ proc = "exited"
    /\ ~pipeFinal
    /\ IF cancel
       THEN /\ saved' = Cardinality(Files)
            /\ pc' = "hw_ret"
            /\ UNCHANGED events
       ELSE IF returncode # 0
       THEN /\ events' = Append(events, Message("fallback"))
            /\ pc' = "select"
            /\ UNCHANGED saved
       ELSE /\ saved' = IF saved = 0 THEN Cardinality(Files) ELSE saved
            /\ pc' = "hw_ret"
            /\ UNCHANGED events
    /\ UNCHANGED <<reqVars, handles, qtVars, tkVars, vf_filters, cancel,
                   planVars,
                   out_dir, swVars,
                   procVars,
                   fsVars, obsVars>>

\* variant: a non-zero exit of the decoder ends the run in error
HwAfterLoopRaises ==
    /\ pc \in {"hw_loop", "hw_wait"}
    /\ proc = "exited"
    /\ ~pipeFinal
    /\ IF cancel
       THEN /\ saved' = Cardinality(Files)
            /\ pc' = "hw_ret"
            /\ UNCHANGED <<events, handles>>
       ELSE IF returncode # 0
       THEN /\ Fail("hw")
            /\ UNCHANGED saved
       ELSE /\ saved' = IF saved = 0 THEN Cardinality(Files) ELSE saved
            /\ pc' = "hw_ret"
            /\ UNCHANGED <<events, handles>>
    /\ UNCHANGED <<reqVars, qtVars, tkVars, vf_filters, cancel, planVars,
                   out_dir, swVars,
                   procVars,
                   fsVars, obsVars>>

\* lines 555-581: end of stream, proc.wait() has returned
HwAfterLoop ==
    /\ pc \in {"hw_loop", "hw_wait"}
    /\ proc = "exited"
    /\ ~pipeFinal
    /\ IF cancel
       THEN /\ saved' = Cardinality(Files)
            /\ pc' = "hw_ret"
            /\ UNCHANGED events
       ELSE IF returncode # 0
       THEN /\ events' = Append(events, Message("fallback"))
            /\ pc' = "sw_open"
            /\ UNCHANGED saved
       ELSE /\ saved' = IF saved = 0 THEN Cardinality(Files) ELSE saved
            /\ pc' = "hw_ret"
            /\ UNCHANGED events
    /\ UNCHANGED <<reqVars, handles, qtVars, tkVars, vf_filters, cancel,
                   planVars,
                   out_dir, swVars,
                   procVars,
                   fsVars, obsVars>>

\* variant: the cancel flag is not consulted after the backend returned
HwReturnIgnoresCancel ==
    /\ pc = "hw_ret"
    /\ events' = events \o
          (IF frames_planned > 0
           THEN <<Progress(Min(saved, frames_planned), frames_planned)>>
           ELSE <<>>)
          \o <<Message("done"), Finished(TRUE, FALSE, out_dir, saved)>>
    /\ pc' = "done"
    /\ termFiles' = Cardinality(Files)
    /\ UNCHANGED <<reqVars, handles, qtVars, tkVars, vf_filters, cancel,
                   planVars,
                   out_dir, saved,
                   swVars,
                   procVars, fsVars, run_no, backends, cancelSeenBy,
                   writesAfterCancel, swFiles, startDirs, startFiles,
                   allocated>>

\* lines 692-701: the hardware backend returned
HwReturn ==
    /\ pc = "hw_ret"
    /\ events' = events \o
          IF cancel
          THEN <<Message("canceled"), Finished(FALSE, TRUE, out_dir, saved)>>
          ELSE (IF frames_planned > 0
                THEN <<Progress(Min(saved, frames_planned), frames_planned)>>
                ELSE <<>>)
               \o <<Message("done"), Finished(TRUE, FALSE, out_dir, saved)>>
    /\ pc' = "done"
    /\ termFiles' = Cardinality(Files)
    /\ UNCHANGED <<reqVars, handles, qtVars, tkVars, vf_filters, cancel,
                   planVars,
                   out_dir, saved,
                   swVars,
                   procVars, fsVars, run_no, backends, cancelSeenBy,
                   writesAfterCancel, swFiles, startDirs, startFiles,
                   allocated>>

\* the decoder process writes its next numbered frame file
ProcWrite ==
    /\ proc \in {"running", "terminating"}
    /\ hwWritten < MaxFrames
    /\ hwWritten' = hwWritten + 1
    /\ dirFiles' = [dirFiles EXCEPT ![out_dir] = @ \cup {hwWritten + 1}]
    /\ UNCHANGED <<reqVars, handles, qtVars, tkVars, vf_filters, pc, cancel,
                   planVars,
                   out_dir, saved,
                   swVars,
                   proc, returncode, procLines, pipeFinal, dirs, events,
                   obsVars>>

\* the decoder process ends: by itself with exit code 0 (after a last
\* progress block) or non-zero, or because it was terminated
ProcExit ==
    /\ proc \in {"running", "terminating"}
    /\ proc' = "exited"
    /\ \E code \in {0, 1} :
          /\ proc = "terminating" => code = 1
          /\ returncode' = code
          /\ pipeFinal' = (code = 0 /\ pc = "hw_loop")
    /\ UNCHANGED <<reqVars, handles, qtVars, tkVars, vf_filters, pc, cancel,
                   planVars,
                   out_dir, saved,
                   swVars,
                   hwWritten, procLines, fsVars, events, obsVars>>

\* ----------------------------------------------------- software backend
\* self.start_time and self.end_time taken as truth values (None and 0 are
\* false)
Truthy(x) == x # None /\ x # 0

\* cap.get(CAP_PROP_POS_MSEC) after the k-th read: the timestamp of the
\* frame just decoded
PosMs(k) == seek_ms + (k - 1) * FrameMs

\* lines 747-755
EndLimitFrames(st, et, fps_eff) ==
    IF Truthy(et) /\ et > StartS(st) /\ fps_eff > 0
    THEN RoundDiv((et - StartS(st)) * fps_eff, MsPerSec)
    ELSE None

EndLimitMs(st, et) ==
    IF Truthy(et) /\ et > StartS(st) THEN et ELSE None

\* variant: every N-th frame counted from one, so that the first frame
\* saved is frame N
DoSaveOneBased(k, pos_ms, nxt) ==
    IF sample_every_t > 0
    THEN nxt # None /\ pos_ms >= nxt
    ELSE IF sample_every_n > 1
         THEN k % sample_every_n = 0
         ELSE TRUE

\* lines 781-802: the save decision for the frame just read; k is
\* frame_index after the read
DoSave(k, pos_ms, nxt) ==
    IF sample_every_t > 0
    THEN nxt # None /\ pos_ms >= nxt
    ELSE IF sample_every_n > 1
         THEN (k - 1) % sample_every_n = 0
         ELSE TRUE

\* lines 811-816: the throttled progress report at the end of an iteration
SwProgress(s) ==
    IF frames_planned > 0
    THEN IF s % throttle = 0 \/ s = frames_planned
         THEN <<Progress(s, frames_planned)>>
         ELSE <<>>
    ELSE IF s % throttle = 0 THEN <<Progress(s, 0)>> ELSE <<>>

\* variant: the software backend goes on counting from what the hardware
\* backend had reported
SwOpenResumes ==
    /\ pc = "sw_open"
    /\ backends' = Append(backends, "sw")
    /\ \E opened \in BOOLEAN :
          IF ~opened
          THEN /\ Fail("open")
               /\ termFiles' = Cardinality(Files)
               /\ UNCHANGED <<saved, swVars>>
          ELSE /\ \E seek_ok \in BOOLEAN :
                     seek_ms' = IF Truthy(start_time) /\ seek_ok
                                THEN start_time ELSE 0
               /\ \E cap_fps \in FpsVals :
                     LET fps_eff == IF fps_val > 0 THEN fps_val ELSE cap_fps
                     IN  end_limit_frames' =
                             EndLimitFrames(start_time, end_time, fps_eff)
               /\ end_limit_ms' = EndLimitMs(start_time, end_time)
               /\ next_ms' = IF sample_every_t > 0
                             THEN StartS(start_time) ELSE None
               /\ events' = events \o
                     <<Message("start"), Progress(0, frames_in_range)>>
               /\ saved' = saved
               /\ frame_index' = 0
               /\ pc' = "sw_loop"
               /\ handles' = handles \cup {"cap"}
               /\ UNCHANGED termFiles
    /\ UNCHANGED <<reqVars, qtVars, tkVars, vf_filters, cancel, planVars,
                   out_dir, procVars,
                   fsVars,
                   run_no, cancelSeenBy, writesAfterCancel, swFiles, startDirs,
                   startFiles, allocated>>

\* variant: the schedule starts at the position the seek has reached
SwOpenAnchorsToSeek ==
    /\ pc = "sw_open"
    /\ backends' = Append(backends, "sw")
    /\ \E opened \in BOOLEAN :
          IF ~opened
          THEN /\ Fail("open")
               /\ termFiles' = Cardinality(Files)
               /\ UNCHANGED <<saved, swVars>>
          ELSE /\ \E seek_ok \in BOOLEAN :
                     seek_ms' = IF Truthy(start_time) /\ seek_ok
                                THEN start_time ELSE 0
               /\ \E cap_fps \in FpsVals :
                     LET fps_eff == IF fps_val > 0 THEN fps_val ELSE cap_fps
                     IN  end_limit_frames' =
                             EndLimitFrames(start_time, end_time, fps_eff)
               /\ end_limit_ms' = EndLimitMs(start_time, end_time)
               /\ next_ms' = IF sample_every_t > 0 THEN seek_ms' ELSE None
               /\ events' = events \o
                     <<Message("start"), Progress(0, frames_in_range)>>
               /\ saved' = 0
               /\ frame_index' = 0
               /\ pc' = "sw_loop"
               /\ handles' = handles \cup {"cap"}
               /\ UNCHANGED termFiles
    /\ UNCHANGED <<reqVars, qtVars, tkVars, vf_filters, cancel, planVars,
                   out_dir, procVars,
                   fsVars,
                   run_no, cancelSeenBy, writesAfterCancel, swFiles, startDirs,
                   startFiles, allocated>>

\* lines 709-762: open the capture, seek, announce, set up the loop
SwOpen ==
    /\ pc = "sw_open"
    /\ backends' = Append(backends, "sw")
    /\ \E opened \in BOOLEAN :
          IF ~opened
          THEN /\ Fail("open")
               /\ termFiles' = Cardinality(Files)
               /\ UNCHANGED <<saved, swVars>>
          ELSE /\ \E seek_ok \in BOOLEAN :
                     seek_ms' = IF Truthy(start_time) /\ seek_ok
                                THEN start_time ELSE 0
               /\ \E cap_fps \in FpsVals :
                     LET fps_eff == IF fps_val > 0 THEN fps_val ELSE cap_fps
                     IN  end_limit_frames' =
                             EndLimitFrames(start_time, end_time, fps_eff)
               /\ end_limit_ms' = EndLimitMs(start_time, end_time)
               /\ next_ms' = IF sample_every_t > 0
                             THEN StartS(start_time) ELSE None
               /\ events' = events \o
                     <<Message("start"), Progress(0, frames_in_range)>>
               /\ saved' = 0
               /\ frame_index' = 0
               /\ pc' = "sw_loop"
               /\ handles' = handles \cup {"cap"}
               /\ UNCHANGED termFiles
    /\ UNCHANGED <<reqVars, qtVars, tkVars, vf_filters, cancel, planVars,
                   out_dir, procVars,
                   fsVars,
                   run_no, cancelSeenBy, writesAfterCancel, swFiles, startDirs,
                   startFiles, allocated>>

\* variant: the loop does not test the cancel flag
SwReadNoCancelTest ==
    /\ pc = "sw_loop"
    /\ IF FALSE
       THEN /\ cancelSeenBy' = "sw"
            /\ pc' = "sw_end"
            /\ UNCHANGED <<frame_index, next_ms, events>>
       ELSE /\ UNCHANGED cancelSeenBy
            /\ \E ret \in BOOLEAN :
                  /\ ret => frame_index < video_max
                  /\ IF ~ret
                     THEN /\ pc' = "sw_end"
                          /\ UNCHANGED <<frame_index, next_ms, events>>
                     ELSE LET k == frame_index + 1
                              pos_ms == PosMs(k)
                          IN  /\ frame_index' = k
                              /\ IF \/ end_limit_frames # None
                                       /\ k >= end_limit_frames
                                    \/ end_limit_ms # None
                                       /\ pos_ms # 0
                                       /\ pos_ms > end_limit_ms
                                 THEN /\ pc' = "sw_end"
                                      /\ UNCHANGED <<next_ms, events>>
                                 ELSE IF DoSave(k, pos_ms, next_ms)
                                 THEN /\ pc' = "sw_write"
                                      /\ next_ms' =
                                            IF sample_every_t > 0
                                            THEN next_ms + sample_every_t
                                            ELSE next_ms
                                      /\ UNCHANGED events
                                 ELSE /\ pc' = "sw_loop"
                                      /\ events' = events \o SwProgress(saved)
                                      /\ UNCHANGED next_ms
    /\ UNCHANGED <<reqVars, handles, qtVars, tkVars, vf_filters, cancel,
                   planVars,
                   out_dir, saved,
                   end_limit_frames, end_limit_ms, seek_ms, procVars, fsVars,
                   run_no, backends, writesAfterCancel, swFiles, termFiles,
                   startDirs,
                   startFiles, allocated>>

\* lines 764-802 and 811-816: the loop test, one read, the end-of-window
\* tests and the save decision; a frame that is not saved completes its
\* iteration here
SwRead ==
    /\ pc = "sw_loop"
    /\ IF cancel
       THEN /\ cancelSeenBy' = "sw"
            /\ pc' = "sw_end"
            /\ UNCHANGED <<frame_index, next_ms, events>>
       ELSE /\ UNCHANGED cancelSeenBy
            /\ \E ret \in BOOLEAN :
                  /\ ret => frame_index < video_max
                  /\ IF ~ret
                     THEN /\ pc' = "sw_end"
                          /\ UNCHANGED <<frame_index, next_ms, events>>
                     ELSE LET k == frame_index + 1
                              pos_ms == PosMs(k)
                          IN  /\ frame_index' = k
                              /\ IF \/ end_limit_frames # None
                                       /\ k >= end_limit_frames
                                    \/ end_limit_ms # None
                                       /\ pos_ms # 0
                                       /\ pos_ms > end_limit_ms
                                 THEN /\ pc' = "sw_end"
                                      /\ UNCHANGED <<next_ms, events>>
                                 ELSE IF DoSave(k, pos_ms, next_ms)
                                 THEN /\ pc' = "sw_write"
                                      /\ next_ms' =
                                            IF sample_every_t > 0
                                            THEN next_ms + sample_every_t
                                            ELSE next_ms
                                      /\ UNCHANGED events
                                 ELSE /\ pc' = "sw_loop"
                                      /\ events' = events \o SwProgress(saved)
                                      /\ UNCHANGED next_ms
    /\ UNCHANGED <<reqVars, handles, qtVars, tkVars, vf_filters, cancel,
                   planVars,
                   out_dir, saved,
                   end_limit_frames, end_limit_ms, seek_ms, procVars, fsVars,
                   run_no, backends, writesAfterCancel, swFiles, termFiles,
                   startDirs,
                   startFiles, allocated>>

\* variant: the file is numbered by the source frame index
SwWriteByFrameIndex ==
    /\ pc = "sw_write"
    /\ \E ok \in BOOLEAN :
          IF ok
          THEN /\ dirFiles' =
                     [dirFiles EXCEPT ![out_dir] = @ \cup {frame_index}]
               /\ swFiles' = swFiles \cup {frame_index}
               /\ saved' = saved + 1
               /\ events' = events \o SwProgress(saved + 1)
               /\ writesAfterCancel' =
                     IF cancel THEN writesAfterCancel + 1
                     ELSE writesAfterCancel
               /\ pc' = "sw_loop"
               /\ UNCHANGED <<termFiles, handles>>
          ELSE /\ Fail("write")
               /\ termFiles' = Cardinality(Files)
               /\ UNCHANGED <<dirFiles, saved, writesAfterCancel, swFiles>>
    /\ UNCHANGED <<reqVars, qtVars, tkVars, vf_filters, cancel, planVars,
                   out_dir, swVars,
                   procVars, dirs,
                   run_no, backends, cancelSeenBy, startDirs, startFiles,
                   allocated>>

\* variant: a failed write ends the run with the frames saved so far
SwWritePartialResult ==
    /\ pc = "sw_write"
    /\ \E ok \in BOOLEAN :
          IF ok
          THEN /\ dirFiles' = [dirFiles EXCEPT ![out_dir] = @ \cup {saved + 1}]
               /\ swFiles' = swFiles \cup {saved + 1}
               /\ saved' = saved + 1
               /\ events' = events \o SwProgress(saved + 1)
               /\ writesAfterCancel' =
                     IF cancel THEN writesAfterCancel + 1
                     ELSE writesAfterCancel
               /\ pc' = "sw_loop"
               /\ UNCHANGED <<termFiles, handles>>
          ELSE /\ events' = Append(events,
                                   Finished(FALSE, FALSE, out_dir, saved))
               /\ pc' = "done"
               /\ handles' = {}
               /\ termFiles' = Cardinality(Files)
               /\ UNCHANGED <<dirFiles, saved, writesAfterCancel, swFiles>>
    /\ UNCHANGED <<reqVars, qtVars, tkVars, vf_filters, cancel, planVars,
                   out_dir, swVars,
                   procVars, dirs,
                   run_no, backends, cancelSeenBy, startDirs, startFiles,
                   allocated>>

\* lines 804-816: write the frame under the next saved number, count it,
\* report progress; a failed write raises
SwWrite ==
    /\ pc = "sw_write"
    /\ \E ok \in BOOLEAN :
          IF ok
          THEN /\ dirFiles' = [dirFiles EXCEPT ![out_dir] = @ \cup {saved + 1}]
               /\ swFiles' = swFiles \cup {saved + 1}
               /\ saved' = saved + 1
               /\ events' = events \o SwProgress(saved + 1)
               /\ writesAfterCancel' =
                     IF cancel THEN writesAfterCancel + 1
                     ELSE writesAfterCancel
               /\ pc' = "sw_loop"
               /\ UNCHANGED <<termFiles, handles>>
          ELSE /\ Fail("write")
               /\ termFiles' = Cardinality(Files)
               /\ UNCHANGED <<dirFiles, saved, writesAfterCancel, swFiles>>
    /\ UNCHANGED <<reqVars, qtVars, tkVars, vf_filters, cancel, planVars,
                   out_dir, swVars,
                   procVars, dirs,
                   run_no, backends, cancelSeenBy, startDirs, startFiles,
                   allocated>>

\* variant: the cancel branch falls through into the completion branch
SwFinishNoElse ==
    /\ pc = "sw_end"
    /\ events' = events \o
          (IF cancel
           THEN <<Message("canceled"), Finished(FALSE, TRUE, out_dir, saved)>>
           ELSE <<>>)
          \o (IF frames_planned > 0
              THEN <<Progress(Min(saved, frames_planned), frames_planned)>>
              ELSE <<>>)
          \o <<Message("done"), Finished(TRUE, FALSE, out_dir, saved)>>
    /\ handles' = handles \ {"cap"}
    /\ pc' = "done"
    /\ termFiles' = Cardinality(Files)
    /\ UNCHANGED <<reqVars, qtVars, tkVars, vf_filters, cancel, planVars,
                   out_dir, saved,
                   swVars,
                   procVars, fsVars, run_no, backends, cancelSeenBy,
                   writesAfterCancel, swFiles, startDirs, startFiles,
                   allocated>>

\* variant: the final progress reports the saved count as it is
SwFinishUnclamped ==
    /\ pc = "sw_end"
    /\ events' = events \o
          IF cancel
          THEN <<Message("canceled"), Finished(FALSE, TRUE, out_dir, saved)>>
          ELSE (IF frames_planned > 0
                THEN <<Progress(saved, frames_planned)>>
                ELSE <<>>)
               \o <<Message("done"), Finished(TRUE, FALSE, out_dir, saved)>>
    /\ handles' = handles \ {"cap"}
    /\ pc' = "done"
    /\ termFiles' = Cardinality(Files)
    /\ UNCHANGED <<reqVars, qtVars, tkVars, vf_filters, cancel, planVars,
                   out_dir, saved,
                   swVars,
                   procVars, fsVars, run_no, backends, cancelSeenBy,
                   writesAfterCancel, swFiles, startDirs, startFiles,
                   allocated>>

\* lines 818-830: release the capture and emit the result
SwFinish ==
    /\ pc = "sw_end"
    /\ events' = events \o
          IF cancel
          THEN <<Message("canceled"), Finished(FALSE, TRUE, out_dir, saved)>>
          ELSE (IF frames_planned > 0
                THEN <<Progress(Min(saved, frames_planned), frames_planned)>>
                ELSE <<>>)
               \o <<Message("done"), Finished(TRUE, FALSE, out_dir, saved)>>
    /\ handles' = handles \ {"cap"}
    /\ pc' = "done"
    /\ termFiles' = Cardinality(Files)
    /\ UNCHANGED <<reqVars, qtVars, tkVars, vf_filters, cancel, planVars,
                   out_dir, saved,
                   swVars,
                   procVars, fsVars, run_no, backends, cancelSeenBy,
                   writesAfterCancel, swFiles, startDirs, startFiles,
                   allocated>>

\* ------------------------------------------------------------ next request
\* MainWindow.on_start builds a new worker for the same video and output
\* root once the previous run is over and its decoder process is gone
NewRun ==
    /\ pc = "done"
    /\ run_no < MaxRuns
    /\ proc \notin {"running", "terminating"}
    /\ run_no' = run_no + 1
    /\ pc' = "idle"
    /\ cancel' = FALSE
    /\ handles' = {}
    /\ meta' = MetaDefault /\ total_frames_cv' = None /\ plans' = 0
    /\ precise' = None /\ plan_total_full' = 0
    /\ fps_val' = 0 /\ frames_in_range' = 0 /\ frames_planned' = 0 /\ pad' = 0
    /\ out_dir' = None
    /\ saved' = 0 /\ frame_index' = 0
    /\ end_limit_frames' = None /\ end_limit_ms' = None
    /\ next_ms' = None /\ seek_ms' = 0
    /\ proc' = "none" /\ returncode' = 0 /\ hwWritten' = 0
    /\ procLines' = 0 /\ pipeFinal' = FALSE
    /\ vf_filters' = <<>>
    /\ events' = <<>>
    /\ backends' = <<>>
    /\ cancelSeenBy' = "none"
    /\ writesAfterCancel' = 0
    /\ swFiles' = {}
    /\ termFiles' = None
    /\ startDirs' = dirs
    /\ startFiles' = dirFiles
    /\ UNCHANGED <<reqVars, qtVars, tkVars, fsVars, allocated>>

Worker ==
    \/ RunStart \/ Allocate \/ SelectBackend
    \/ HwReadLine \/ HwReadException \/ HwAfterLoop \/ HwReturn
    \/ SwOpen \/ SwRead \/ SwWrite \/ SwFinish

Process == ProcWrite \/ ProcExit

Next == Worker \/ Process \/ Cancel

Spec == Init /\ [][Next]_vars

\* the worker thread keeps running and the decoder process ends, so that
\* every blocking read returns
FairSpec ==
    InitFair /\ [][Next]_vars /\ WF_vars(Worker) /\ WF_vars(ProcExit)

\* successive requests for the same video and output root
\* runs on a machine without the hardware decoder
NextSw ==
    \/ RunStart \/ Allocate \/ SelectSoftware
    \/ SwOpen \/ SwRead \/ SwWrite \/ SwFinish
    \/ Cancel

SpecSw == InitSw /\ [][NextSw]_vars

\* the planner on its own
SpecPlan == InitPlan /\ [][PlanStep]_vars

NextRuns == Next \/ NewRun

SpecRuns == InitRuns /\ [][NextRuns]_vars

\* ====================================================== the Tk application
\* frame_extractor_app.py: FrameExtractorApp and its extraction thread.  The
\* thread talks to the main thread through root.after(0, callback); of the
\* callbacks only the final status texts, _enable_start_button and
\* root.destroy are kept
Post(kind, t) == <<kind, t>>

Started == {t \in DOMAIN threads : threads[t].pc # "none"}

\* the application with a video and an output folder selected; the folder
\* may hold frame files of an earlier run
TkConstructed ==
    /\ dialog = "none"
    /\ set_on_none = FALSE
    /\ start_button = "normal"
    /\ cancel_event = "none"
    /\ close_after_cancel = FALSE
    /\ skip_existing_current = FALSE
    /\ posts = <<>>
    /\ writes = <<>>
    /\ handled = {}
    /\ destroyed = FALSE

\* one extraction of a video of up to MaxTkFrames frames
InitTk ==
    /\ NoWorker
    /\ NoWindow
    /\ TkConstructed
    /\ tk_video_max = MaxTkFrames
    /\ threads = [t \in 1 .. 1 |-> NoThread]
    /\ out_files \in SUBSET (0 .. MaxTkFrames - 1)

\* lines 673-745: a click on the enabled Start button.  writable: the
\* write test of the output folder passed; skip: the value of the
\* "Skip existing" check box
start_processing ==
    /\ ~destroyed
    /\ dialog = "none"
    /\ start_button = "normal"
    /\ Started # DOMAIN threads
    /\ \E writable \in BOOLEAN, skip \in BOOLEAN :
          IF ~writable
          THEN UNCHANGED tkVars
          ELSE LET t == Cardinality(Started) + 1
               IN  /\ start_button' = "disabled"
                   /\ cancel_event' = "clear"
                   /\ skip_existing_current' = skip
                   /\ threads' =
                         [threads EXCEPT ![t] = [NoThread EXCEPT !.pc = "open"]]
                   /\ UNCHANGED <<tk_video_max, dialog, set_on_none,
                                  close_after_cancel, posts,
                                  out_files, writes, handled, destroyed>>
    /\ UNCHANGED <<workerVars, qtVars>>

\* lines 749-753 and 758-762: askyesno returns.  While the box was open
\* the main window took no click, its queued callbacks ran and the
\* extraction thread went on.  On Yes the handler calls
\* self.cancel_event.set() without reading cancel_event again (_on_close
\* after setting _close_after_cancel); on None that raises AttributeError
\* and the handler ends there
AnswerDialog ==
    /\ ~destroyed
    /\ dialog # "none"
    /\ dialog' = "none"
    /\ \E yes \in BOOLEAN :
          IF yes
          THEN /\ close_after_cancel' = (close_after_cancel \/ dialog = "exit")
               /\ cancel_event' =
                     IF cancel_event = "none" THEN "none" ELSE "set"
               /\ set_on_none' = (set_on_none \/ cancel_event = "none")
          ELSE UNCHANGED <<close_after_cancel, cancel_event, set_on_none>>
    /\ UNCHANGED <<workerVars, qtVars, tk_video_max, start_button,
                   skip_existing_current, posts, threads, out_files, writes,
                   handled, destroyed>>

\* lines 747-750: a click on Cancel; with a live event that is not set
\* the handler opens the "Cancel processing?" box
cancel_processing ==
    /\ ~destroyed
    /\ dialog = "none"
    /\ cancel_event = "clear"
    /\ dialog' = "cancel"
    /\ UNCHANGED <<workerVars, qtVars, tk_video_max, set_on_none,
                   start_button, cancel_event, close_after_cancel,
                   skip_existing_current, posts, threads, out_files, writes,
                   handled, destroyed>>

\* lines 755-763: the window's close button; with a live event that is
\* not set the handler opens the "Cancel and close the app?" box, else it
\* destroys the window
on_close ==
    /\ ~destroyed
    /\ dialog = "none"
    /\ IF cancel_event = "clear"
       THEN dialog' = "exit" /\ UNCHANGED destroyed
       ELSE destroyed' = TRUE /\ UNCHANGED dialog
    /\ UNCHANGED <<workerVars, qtVars, tk_video_max, set_on_none,
                   start_button, cancel_event, close_after_cancel,
                   skip_existing_current, posts, threads, out_files, writes,
                   handled>>

\* the main loop runs the oldest queued callback (lines 280-282 and
\* 766-771 for _enable_start_button)
HandlePost ==
    /\ ~destroyed
    /\ posts # <<>>
    /\ LET p == Head(posts)
       IN  /\ posts' = Tail(posts)
           /\ start_button' =
                 IF p[1] = "enable_start" THEN "normal" ELSE start_button
           /\ handled' =
                 IF p[1] = "enable_start" THEN handled \cup {p[2]} ELSE handled
           /\ destroyed' = (p[1] = "destroy")
    /\ UNCHANGED <<workerVars, qtVars, tk_video_max, dialog,
                   set_on_none, cancel_event,
                   close_after_cancel,
                   skip_existing_current, threads, out_files, writes>>

\* video_capture.read() for the frame with zero-based index i: a frame, the
\* end of the video, cv2.error, or an exception the thread does not catch
ReadOutcomes(i) ==
    {"eof", "cv2_error", "uncaught"} \cup
        (IF i < tk_video_max THEN {"ok"} ELSE {})

\* where the thread goes after a read with outcome r (lines 533-535, 589,
\* 628-632)
PcAfterRead(r) ==
    IF r = "ok" THEN "body" ELSE IF r = "eof" THEN "after" ELSE "finally"

PostsAfterRead(r, t) ==
    IF r = "cv2_error" THEN <<Post("status_error", t)>> ELSE <<>>

\* lines 510-533: open the capture and read the first frame
TkOpen(t) ==
    /\ ~destroyed
    /\ threads[t].pc = "open"
    /\ \E outcome \in {"opened", "not_opened", "cv2_error"} :
          IF outcome = "cv2_error"
          THEN /\ threads' = [threads EXCEPT ![t].pc = "finally"]
               /\ posts' = Append(posts, Post("status_error", t))
          ELSE IF outcome = "not_opened"
          THEN /\ threads' = [threads EXCEPT ![t].pc = "finally",
                                              ![t].video_capture = "closed"]
               /\ posts' = posts \o <<Post("status_error", t),
                                       Post("enable_start", t)>>
          ELSE \E r \in ReadOutcomes(0) :
                  /\ threads' = [threads EXCEPT ![t].pc = PcAfterRead(r),
                                                 ![t].video_capture = "open"]
                  /\ posts' = posts \o PostsAfterRead(r, t)
    /\ UNCHANGED <<workerVars, qtVars, tk_video_max, dialog,
                   set_on_none, start_button,
                   cancel_event,
                   close_after_cancel, skip_existing_current, out_files,
                   writes, handled, destroyed>>

\* lines 544-548: the index in the file name
IndexForName(thr) ==
    IF skip_existing_current THEN thr.frame_index ELSE thr.saved_count

\* variant: with "Skip existing" an existing file is written again
TkBodyOverwrites(t) ==
    /\ ~destroyed
    /\ threads[t].pc = "body"
    /\ LET thr == threads[t]
           i == IndexForName(thr)
       IN  IF cancel_event = "set"
           THEN /\ threads' = [threads EXCEPT ![t].pc = "after"]
                /\ UNCHANGED <<posts, out_files, writes>>
           ELSE \E ok \in BOOLEAN :
                   IF ~ok
                   THEN /\ threads' =
                              [threads EXCEPT ![t].pc = "after",
                                              ![t].error_message = TRUE]
                        /\ UNCHANGED <<posts, out_files, writes>>
                   ELSE /\ out_files' = out_files \cup {i}
                        /\ writes' =
                              Append(writes,
                                     [thread |-> t, name |-> i,
                                      frame |-> thr.frame_index,
                                      existed |-> i \in out_files])
                        /\ \E r \in ReadOutcomes(thr.frame_index + 1) :
                              /\ threads' =
                                    [threads EXCEPT
                                       ![t].pc = PcAfterRead(r),
                                       ![t].saved_count = @ + 1,
                                       ![t].frame_index =
                                          IF r \in {"ok", "eof"}
                                          THEN @ + 1 ELSE @]
                              /\ posts' = posts \o PostsAfterRead(r, t)
    /\ UNCHANGED <<workerVars, qtVars, tk_video_max, dialog,
                   set_on_none, start_button,
                   cancel_event,
                   close_after_cancel, skip_existing_current, handled,
                   destroyed>>

\* lines 534-589: one iteration of the loop: the cancel test, the file of
\* this frame (frame_interval is always 1), the next read
TkBody(t) ==
    /\ ~destroyed
    /\ threads[t].pc = "body"
    /\ LET thr == threads[t]
           i == IndexForName(thr)
       IN  IF cancel_event = "set"
           THEN /\ threads' = [threads EXCEPT ![t].pc = "after"]
                /\ UNCHANGED <<posts, out_files, writes>>
           ELSE \E ok \in BOOLEAN :
                   IF skip_existing_current /\ i \in out_files
                   THEN /\ \E r \in ReadOutcomes(thr.frame_index + 1) :
                              /\ threads' =
                                    [threads EXCEPT
                                       ![t].pc = PcAfterRead(r),
                                       ![t].frame_index =
                                          IF r \in {"ok", "eof"}
                                          THEN @ + 1 ELSE @]
                              /\ posts' = posts \o PostsAfterRead(r, t)
                        /\ UNCHANGED <<out_files, writes>>
                   ELSE IF ~ok
                   THEN /\ threads' =
                              [threads EXCEPT ![t].pc = "after",
                                              ![t].error_message = TRUE]
                        /\ UNCHANGED <<posts, out_files, writes>>
                   ELSE /\ out_files' = out_files \cup {i}
                        /\ writes' =
                              Append(writes,
                                     [thread |-> t, name |-> i,
                                      frame |-> thr.frame_index,
                                      existed |-> i \in out_files])
                        /\ \E r \in ReadOutcomes(thr.frame_index + 1) :
                              /\ threads' =
                                    [threads EXCEPT
                                       ![t].pc = PcAfterRead(r),
                                       ![t].saved_count = @ + 1,
                                       ![t].frame_index =
                                          IF r \in {"ok", "eof"}
                                          THEN @ + 1 ELSE @]
                              /\ posts' = posts \o PostsAfterRead(r, t)
    /\ UNCHANGED <<workerVars, qtVars, tk_video_max, dialog,
                   set_on_none, start_button,
                   cancel_event,
                   close_after_cancel, skip_existing_current, handled,
                   destroyed>>

\* lines 591-621: release the capture and queue the final status text
TkAfterLoop(t) ==
    /\ ~destroyed
    /\ threads[t].pc = "after"
    /\ threads' = [threads EXCEPT ![t].pc = "finally",
                                  ![t].video_capture = "none"]
    /\ posts' =
          Append(posts,
                 IF threads[t].error_message THEN Post("status_error", t)
                 ELSE IF cancel_event = "set" THEN Post("status_cancelled", t)
                 ELSE Post("status_done", t))
    /\ UNCHANGED <<workerVars, qtVars, tk_video_max, dialog,
                   set_on_none, start_button,
                   cancel_event,
                   close_after_cancel, skip_existing_current, out_files,
                   writes, handled, destroyed>>

\* lines 633-650: the finally block releases a capture that is left and
\* queues the callbacks that give the controls back
TkFinally(t) ==
    /\ ~destroyed
    /\ threads[t].pc = "finally"
    /\ threads' =
          [threads EXCEPT ![t].pc = "clear",
                          ![t].video_capture =
                             IF @ = "none" THEN "none" ELSE "closed"]
    /\ posts' = Append(posts, Post("enable_start", t))
    /\ UNCHANGED <<workerVars, qtVars, tk_video_max, dialog,
                   set_on_none, start_button,
                   cancel_event,
                   close_after_cancel, skip_existing_current, out_files,
                   writes, handled, destroyed>>

\* lines 651-652: the finally block drops the event
TkClearEvent(t) ==
    /\ ~destroyed
    /\ threads[t].pc = "clear"
    /\ threads' = [threads EXCEPT ![t].pc = "read_close"]
    /\ cancel_event' = "none"
    /\ UNCHANGED <<workerVars, qtVars, tk_video_max, dialog,
                   set_on_none, start_button, close_after_cancel,
                   skip_existing_current, posts, out_files, writes, handled,
                   destroyed>>

\* lines 653-655: the last statement of the thread reads
\* _close_after_cancel, once, and queues root.destroy when it is set
TkReadClose(t) ==
    /\ ~destroyed
    /\ threads[t].pc = "read_close"
    /\ threads' = [threads EXCEPT ![t].pc = "end"]
    /\ posts' = IF close_after_cancel
                THEN Append(posts, Post("destroy", t)) ELSE posts
    /\ UNCHANGED <<workerVars, qtVars, tk_video_max, dialog,
                   set_on_none, start_button, cancel_event,
                   close_after_cancel, skip_existing_current, out_files,
                   writes, handled, destroyed>>

TkThread ==
    \E t \in DOMAIN threads :
       \/ TkOpen(t) \/ TkBody(t) \/ TkAfterLoop(t)
       \/ TkFinally(t) \/ TkClearEvent(t) \/ TkReadClose(t)

NextTk ==
    \/ start_processing \/ cancel_processing \/ on_close \/ AnswerDialog
    \/ HandlePost
    \/ TkThread

SpecTk == InitTk /\ [][NextTk]_vars

\* the extraction thread keeps running and the main loop of Tk runs the
\* callbacks queued with root.after; the operator's clicks and answers
\* come or do not
FairSpecTk ==
    InitTk /\ [][NextTk]_vars /\ WF_vars(TkThread) /\ WF_vars(HandlePost)

\* ======================================================= the main window
\* app.py: MainWindow and the workers it makes.  A worker is seen from the
\* window only: it runs, then its terminal signal is queued for the main
\* thread, then the slot of that signal has run
InitQt ==
    /\ NoWorker
    /\ NoTkApp
    /\ start_btn = TRUE /\ cancel_btn = FALSE
    /\ mw_worker = None
    /\ workers = [w \in 1 .. MaxQtRuns |-> "none"]
    /\ worker_cancel = {}
    /\ signals = <<>>
    /\ closed = FALSE

Made == {w \in DOMAIN workers : workers[w] # "none"}

\* lines 1734-1830: a click on the enabled Start button.  valid: the form
\* passes the checks of lines 1735-1769
on_start ==
    /\ ~closed
    /\ start_btn
    /\ Made # DOMAIN workers
    /\ \E valid \in BOOLEAN :
          IF ~valid
          THEN UNCHANGED qtVars
          ELSE LET w == Cardinality(Made) + 1
               IN  /\ start_btn' = FALSE
                   /\ cancel_btn' = TRUE
                   /\ mw_worker' = w
                   /\ workers' = [workers EXCEPT ![w] = "running"]
                   /\ UNCHANGED <<worker_cancel, signals, closed>>
    /\ UNCHANGED <<workerVars, tkVars>>

\* lines 1832-1842: a click on the enabled Cancel button
on_cancel ==
    /\ ~closed
    /\ cancel_btn
    /\ worker_cancel' = IF mw_worker # None
                        THEN worker_cancel \cup {mw_worker}
                        ELSE worker_cancel
    /\ UNCHANGED <<workerVars, tkVars, start_btn, cancel_btn, mw_worker,
                   workers, signals, closed>>

\* FrameExtractorWorker.run of worker w emits its terminal signal, which
\* is queued for the main thread (lines 1821-1822)
WorkerEnds(w) ==
    /\ ~closed
    /\ workers[w] = "running"
    /\ workers' = [workers EXCEPT ![w] = "emitted"]
    /\ \E kind \in {"finished", "error"} :
          signals' = Append(signals, <<kind, w>>)
    /\ UNCHANGED <<workerVars, tkVars, start_btn, cancel_btn, mw_worker,
                   worker_cancel, closed>>

\* lines 1606-1640
on_finished ==
    /\ ~closed
    /\ signals # <<>>
    /\ Head(signals)[1] = "finished"
    /\ signals' = Tail(signals)
    /\ start_btn' = TRUE
    /\ cancel_btn' = FALSE
    /\ mw_worker' = None
    /\ workers' = [workers EXCEPT ![Head(signals)[2]] = "handled"]
    /\ UNCHANGED <<workerVars, tkVars, worker_cancel, closed>>

\* lines 1642-1651
on_error ==
    /\ ~closed
    /\ signals # <<>>
    /\ Head(signals)[1] = "error"
    /\ signals' = Tail(signals)
    /\ start_btn' = TRUE
    /\ cancel_btn' = FALSE
    /\ workers' = [workers EXCEPT ![Head(signals)[2]] = "handled"]
    /\ UNCHANGED <<workerVars, tkVars, mw_worker, worker_cancel, closed>>

\* lines 1844-1875
closeEvent ==
    /\ ~closed
    /\ worker_cancel' = IF mw_worker # None
                        THEN worker_cancel \cup {mw_worker}
                        ELSE worker_cancel
    /\ mw_worker' = None
    /\ closed' = TRUE
    /\ UNCHANGED <<workerVars, tkVars, start_btn, cancel_btn, workers,
                   signals>>

NextQt ==
    \/ on_start \/ on_cancel \/ on_finished \/ on_error \/ closeEvent
    \/ \E w \in DOMAIN workers : WorkerEnds(w)

\* the Tk application used for several extractions of a video that
\* cannot be opened or holds at most MaxUiFrames frames
InitTkUi ==
    /\ NoWorker
    /\ NoWindow
    /\ TkConstructed
    /\ tk_video_max = MaxUiFrames
    /\ threads = [t \in 1 .. MaxTkRuns |-> NoThread]
    /\ out_files = {}

\* either application, used by one operator: the main window, the Tk
\* application run repeatedly, or the Tk application run once on a video
\* with frames
InitUi == InitQt \/ InitTkUi \/ InitTk

NextUi == NextQt \/ NextTk

SpecUi == InitUi /\ [][NextUi]_vars

\* a run of either extraction engine: the worker of the main window or the
\* thread of the Tk application
InitEngines == Init \/ InitTk

NextEngines == Next \/ NextTk

SpecEngines == InitEngines /\ [][NextEngines]_vars

\* ================================================================= claims
ProgressAt == {i \in 1 .. Len(events) : IsProgress(events[i])}
TerminalAt == {i \in 1 .. Len(events) : IsTerminal(events[i])}
Proclive == proc \in {"running", "terminating"}
SwPcs == {"sw_loop", "sw_write", "sw_end"}

\* C1: a run emits exactly one terminal signal (finished or error), once,
\* and nothing after it: never more than one terminal signal in the log, the
\* run is over exactly when there is one, and it is the last signal.
C1_OneTerminalLast ==
    /\ Cardinality(TerminalAt) <= 1
    /\ (pc = "done") <=> (Cardinality(TerminalAt) = 1)
    /\ TerminalAt # {} => IsTerminal(Last(events))

C1_Witness ==
    /\ pc = "done"
    /\ backends = <<"hw", "sw">>
    /\ IsFinished(Last(events))
    /\ Cardinality(ProgressAt) >= 3

\* C2: within one run the framesSaved values of successive progress signals
\* never decrease, hardware-to-software fallback included.
C2_ProgressNonDecreasing ==
    \A i, j \in ProgressAt : i < j => events[i][2] <= events[j][2]

\* C3: a run that ends with finished(success=False, canceled=True) reports
\* as framesSaved the number of frame files in the output directory at that
\* moment.
C3_CanceledCountIsFileCount ==
    (pc = "done" /\ IsFinished(Last(events)) /\ Last(events)[3])
        => Last(events)[5] = termFiles

\* C4: the backends started in a run are software only, hardware only, or
\* hardware then software (none before backend selection or after a
\* validation failure); hardware is never started twice nor after software.
C4_BackendOrder ==
    backends \in {<<>>, <<"sw">>, <<"hw">>, <<"hw", "sw">>}

C4_Witness ==
    /\ backends = <<"hw", "sw">>
    /\ pc = "sw_write"
    /\ returncode = 1

\* C5: the decoder process started by the hardware backend has terminated
\* whenever the software backend has the video open or the terminal signal
\* has been emitted.
C5_DecoderGoneBeforeSoftware ==
    pc \in SwPcs \cup {"done"} => ~Proclive

\* C6: once a backend has stopped because it saw the cancel flag, no error
\* is emitted and the run ends with finished(success=False, canceled=True)
\* carrying the frames saved so far (the saved counter; for the hardware
\* backend the files counted in the output directory).
C6_SeenCancelEndsCanceled ==
    cancelSeenBy # "none" =>
        /\ \A i \in 1 .. Len(events) : ~IsError(events[i])
        /\ pc = "done" =>
              /\ Last(events) = Finished(FALSE, TRUE, out_dir, saved)
              /\ cancelSeenBy = "hw" => saved = termFiles

C6_Witness ==
    /\ pc = "done"
    /\ cancelSeenBy = "sw"
    /\ saved > 0

\* C7: after cancel() the run emits its terminal signal, given that the
\* worker keeps running and every blocking read returns; the software loop
\* writes at most the frame it was processing when cancel was set.
C7_CancelStopsRun ==
    /\ [](writesAfterCancel <= 1)
    /\ (cancel /\ pc # "done") ~> (pc = "done")

C7_Witness ==
    /\ pc = "done"
    /\ cancel
    /\ cancelSeenBy = "sw"
    /\ writesAfterCancel = 1

\* C8: a request with an end time that is not after the start time (start
\* taken as 0 when absent) is rejected: once run() has looked at it the run
\* is over with error, without an output directory and without a backend.
C8_InvalidWindowRejected ==
    (end_time # None /\ end_time <= StartS(start_time) /\ pc # "idle")
        => /\ pc = "done"
           /\ IsError(Last(events))
           /\ out_dir = None
           /\ backends = <<>>

\* C9: when the video does not exist or the output directory cannot be
\* created, the run never reaches backend selection: it ends with error as
\* its only signal, no decoder process, no file written.
C9_ValidationFailsFast ==
    (~video_exists \/ ~dir_creatable) =>
        /\ pc \in {"idle", "alloc", "done"}
        /\ backends = <<>>
        /\ proc = "none"
        /\ dirFiles = startFiles
        /\ pc = "done" => Len(events) = 1 /\ IsError(events[1])

C9_Witness ==
    /\ pc = "done"
    /\ video_exists
    /\ ~dir_creatable
    /\ events = <<Error("mkdir")>>

\* C10: the allocated directory is the first of <stem>_frames,
\* <stem>_frames_1, ... that did not exist when the run started; what
\* existed then is still there with the same files; successive runs get
\* different directories.
C10_FreshDirectory ==
    /\ out_dir # None =>
          /\ out_dir \notin startDirs
          /\ \A k \in 0 .. out_dir - 1 : k \in startDirs
    /\ startDirs \subseteq dirs
    /\ \A d \in startDirs : dirFiles[d] = startFiles[d]
    /\ \A i, j \in 1 .. Len(allocated) : i # j => allocated[i] # allocated[j]

C10_Witness ==
    /\ run_no = 2
    /\ pc = "done"
    /\ Len(allocated) = 2
    /\ allocated[1] \in startDirs
    /\ 0 \in dirs /\ allocated[1] # 0
    /\ saved > 0

\* the software backend has opened the video and announced its loop
SwStarted == \E i \in 1 .. Len(events) : events[i] = Message("start")

\* C11: at every point of a software-backend run, whatever the sampling, the
\* files the software backend has written are exactly frame_1 .. frame_saved
\* and they are in the output directory; the saved counter grows only by
\* one, in the step that has written frame_(saved + 1).
C11_GaplessBySavedOrder ==
    /\ [](SwStarted => /\ swFiles = 1 .. saved
                       /\ swFiles \subseteq Files)
    /\ [][(SwStarted /\ saved' # saved) =>
              /\ pc = "sw_write"
              /\ saved' = saved + 1
              /\ swFiles' = swFiles \cup {saved + 1}
              /\ (saved + 1) \in dirFiles'[out_dir]]_vars

\* every second frame is sampled: source frames 1, 3 and 5 are files 1, 2, 3
C11_Witness ==
    /\ SwStarted
    /\ sample_every_n = 2 /\ sample_every_t = 0
    /\ frame_index = 5
    /\ saved = 3
    /\ swFiles = {1, 2, 3}

\* C12: the pad width is the number of decimal digits of frames_planned (6
\* when frames_planned is 0), and all file names written in a run have the
\* same number of index digits, so that their order as strings is the order
\* in which they were saved, whatever the final saved count.
C12_NamesSortInSavedOrder ==
    /\ out_dir # None =>
          IF frames_planned > 0
          THEN pad >= 1 /\ frames_planned < 10 ^ pad
               /\ frames_planned >= 10 ^ (pad - 1)
          ELSE pad = 6
    /\ \A i, j \in swFiles :
          /\ Len(FrameName(i, pad)) = Len(FrameName(j, pad))
          /\ i < j => LexLess(FrameName(i, pad), FrameName(j, pad))

\* positions of the fallback notice in the log
FallbackAt == {i \in 1 .. Len(events) : events[i] = Message("fallback")}

\* C13: when the decoder process has exited with a non-zero code and cancel
\* was not requested, the run emits no error for it: it emits the one
\* fallback notice and goes on to the software backend; the notice is emitted
\* at most once, the hardware backend is tried at most once, and after a
\* fallback the terminal signal is the software backend's own (its open or
\* write error, or finished with the number of files it wrote).
C13_HwFailureFallsBack ==
    /\ [][(/\ pc \in {"hw_loop", "hw_wait"}
           /\ proc = "exited" /\ ~pipeFinal
           /\ returncode # 0 /\ ~cancel
           /\ pc' # pc) =>
              /\ pc' = "sw_open"
              /\ events' = Append(events, Message("fallback"))]_vars
    /\ [](/\ Cardinality(FallbackAt) <= 1
          /\ Cardinality({i \in 1 .. Len(backends) : backends[i] = "hw"}) <= 1)
    /\ []((pc = "done" /\ FallbackAt # {}) =>
              /\ backends = <<"hw", "sw">>
              /\ \/ Last(events) \in {Error("open"), Error("write")}
                 \/ /\ Last(events) \in
                          {Finished(TRUE, FALSE, out_dir, saved),
                           Finished(FALSE, TRUE, out_dir, saved)}
                    /\ saved = Cardinality(swFiles))

\* the decoder printed all its lines, exited non-zero, and the software
\* backend completed the run
C13_Witness ==
    /\ pc = "done"
    /\ ~cancel
    /\ procLines = MaxHwLines
    /\ returncode # 0 /\ returncode # None
    /\ hwWritten > 0
    /\ FallbackAt # {}
    /\ Last(events) = Finished(TRUE, FALSE, out_dir, saved)
    /\ saved > 0

\* positions of the software backend's announcement; its progress events
\* all come after it
SwStartAt == {i \in 1 .. Len(events) : events[i] = Message("start")}

NoticeBeforeSoftware == \A i \in FallbackAt, j \in SwStartAt : i < j

\* C14 as stated: after a hardware failure the software backend runs on a
\* fresh plan (the planner has run a second time), and the fallback notice
\* precedes every progress event of the software backend.
C14_FreshPlanAfterFallback ==
    /\ (SwStarted /\ FallbackAt # {}) => plans = 2
    /\ NoticeBeforeSoftware

\* C14 amended: after a hardware failure that left K files, the software
\* backend continues the same run on the plan made before the hardware
\* attempt (the planner ran once; frames_in_range, frames_planned, the pad
\* width and the output directory are not changed by or after the
\* fallback), it starts with its saved counter and frame index at 0
\* whatever K is, and the fallback notice precedes the software backend's
\* announcement and so all of its progress events.
C14_FallbackKeepsPlan ==
    /\ [](FallbackAt # {} => plans = 1)
    /\ [][FallbackAt' # {} =>
              UNCHANGED <<frames_in_range, frames_planned, pad, out_dir>>]_vars
    /\ [][(FallbackAt # {} /\ pc = "sw_open" /\ pc' = "sw_loop") =>
              saved' = 0 /\ frame_index' = 0]_vars
    /\ []NoticeBeforeSoftware

\* the decoder had written K = MaxFrames files and reported them, then
\* failed; the software backend has started over and saved one frame
C14_Witness ==
    /\ FallbackAt # {}
    /\ SwStarted
    /\ hwWritten = MaxFrames
    /\ \E i \in 1 .. Len(events) : events[i] = Progress(hwWritten, frames_planned)
    /\ saved = 1
    /\ swFiles = {1}
    /\ plans = 1

ErrorKinds == {"not_found", "mkdir", "open", "write"}

\* the signals a step has added to the log
Emitted == SubSeq(events', Len(events) + 1, Len(events'))

\* C15 as stated: on every terminal branch (completion, cancellation,
\* error) a final progress event is emitted just before the terminal
\* signal, at most the closing message between them, and it reports
\* min(saved, frames_planned) of frames_planned when frames_planned > 0.
C15_FinalProgressOnEveryBranch ==
    pc = "done" =>
       \E i \in {Len(events) - 1, Len(events) - 2} \cap ProgressAt :
          frames_planned > 0 =>
             events[i] = Progress(Min(saved, frames_planned), frames_planned)

\* C15 amended: the step that ends a run emits, on completion with
\* frames_planned > 0, the final progress min(saved, frames_planned) of
\* frames_planned, then the closing message, then finished(success); on
\* completion with frames_planned = 0 only the closing message and
\* finished(success); on cancellation only the cancel message and
\* finished(canceled); on the error path only the error signal.
C15_FinalProgressOnCompletion ==
    [][(pc # "done" /\ pc' = "done") =>
          \/ \E k \in ErrorKinds : Emitted = <<Error(k)>>
          \/ Emitted = <<Message("canceled"),
                         Finished(FALSE, TRUE, out_dir, saved)>>
          \/ /\ frames_planned = 0
             /\ Emitted = <<Message("done"),
                            Finished(TRUE, FALSE, out_dir, saved)>>
          \/ /\ frames_planned > 0
             /\ Emitted = <<Progress(Min(saved, frames_planned),
                                     frames_planned),
                            Message("done"),
                            Finished(TRUE, FALSE, out_dir, saved)>>]_vars

\* a completed software run that saved more frames than planned
C15_Witness ==
    /\ pc = "done"
    /\ SwStarted
    /\ frames_planned > 0
    /\ saved > frames_planned
    /\ Len(events) >= 3
    /\ events[Len(events) - 2] = Progress(frames_planned, frames_planned)
    /\ Last(events) = Finished(TRUE, FALSE, out_dir, saved)

FinishedAt == {i \in 1 .. Len(events) : IsFinished(events[i])}

\* C16: a run that ends while opening the video in the software backend or
\* while writing a frame ends with the error signal of that failure; and a
\* log holding such an error belongs to a run that is over and holds no
\* finished signal, whatever number of frames was saved.
C16_BackendFatalIsError ==
    /\ [][(pc = "sw_open" /\ pc' = "done") =>
              Emitted = <<Error("open")>>]_vars
    /\ [][(pc = "sw_write" /\ pc' = "done") =>
              Emitted = <<Error("write")>>]_vars
    /\ []((\E i \in 1 .. Len(events) :
               events[i] \in {Error("open"), Error("write")}) =>
              /\ pc = "done"
              /\ FinishedAt = {}
              /\ IsError(Last(events)))

\* the write of the second frame failed after the first was saved
C16_Witness ==
    /\ pc = "done"
    /\ Last(events) = Error("write")
    /\ saved > 0
    /\ swFiles # {}
    /\ FinishedAt = {}

\* C17: whatever the probe ran into, a run whose video exists goes from the
\* probe into planning without emitting anything; no error signal of a run
\* stems from the probe (every error is the missing video, the directory,
\* the open or a write); and a run planned on the all-absent record the
\* probe returns on failure goes on to a backend.
C17_ProbeFailureIsNotAnError ==
    /\ [][(pc = "idle" /\ video_exists /\ pc' # "idle") =>
              /\ pc' = "alloc"
              /\ events' = events
              /\ plans' = plans + 1
              /\ frames_planned' >= 0]_vars
    /\ [](\A i \in 1 .. Len(events) :
             IsError(events[i]) => events[i][2] \in ErrorKinds)
    /\ ((pc = "alloc" /\ meta = MetaDefault) ~> (backends # <<>>))

\* the probe gave nothing, OpenCV gave no count either, and planning is done
\* with nothing planned and nothing emitted
C17_Witness ==
    /\ pc = "alloc"
    /\ plans = 1
    /\ meta = MetaDefault
    /\ total_frames_cv = 0
    /\ frames_planned = 0
    /\ events = <<>>

\* the planner has just run
Planned == pc = "alloc" /\ plans = 1

WholeSeconds(t) == t = None \/ t % MsPerSec = 0

\* C18: for a known frame rate r > 0, a total frame count F > 0 and a window
\* from s to e > s in whole seconds, frames_in_range is
\* max(0, min(e * r, F) - s * r); with no end the end frame is F.
C18_FramesInRangeFormula ==
    (/\ Planned
     /\ meta.fps > 0 /\ meta.frames > 0
     /\ WholeSeconds(start_time) /\ WholeSeconds(end_time)
     /\ end_time # None => end_time > StartS(start_time)) =>
        LET r == meta.fps
            F == meta.frames
            s == StartS(start_time) \div MsPerSec
            e == end_time \div MsPerSec
        IN  IF end_time # None
            THEN frames_in_range = Max(0, Min(e * r, F) - s * r)
            ELSE frames_in_range = Max(0, F - s * r)

\* C19: with time-based sampling off, for every frames_in_range >= 0 and
\* every N >= 1, frames_planned is ceil(frames_in_range / N), the least
\* number of groups of N that cover frames_in_range; with N = 1 it is
\* frames_in_range.
C19_EveryNPlan ==
    (Planned /\ sample_every_t = 0) =>
       /\ frames_in_range >= 0
       /\ frames_planned * sample_every_n >= frames_in_range
       /\ (frames_planned - 1) * sample_every_n < frames_in_range
       /\ sample_every_n = 1 => frames_planned = frames_in_range

\* three frames in range, every second one sampled: two planned
C19_Witness ==
    /\ Planned
    /\ sample_every_t = 0
    /\ sample_every_n = 2
    /\ frames_in_range = 3
    /\ frames_planned = 2

\* the window the every-T plan is made for: end - start when run() has an
\* end, otherwise duration - start, None when neither is known
WindowDuration ==
    IF EndS(start_time, end_time) # None
    THEN EndS(start_time, end_time) - StartS(start_time)
    ELSE IF meta.duration # None
         THEN meta.duration - StartS(start_time)
         ELSE None

\* n = floor(w / t) + 1, by the inequalities that define the floor
IsFloorPlusOne(n, w, t) == (n - 1) * t <= w /\ w < n * t

\* C20 as stated: with every-T sampling, frames_planned is
\* floor(window duration / T) + 1 for every window duration >= 0, 0
\* included, and frames_planned is 0 only when the duration is unknown and
\* no end is set.
C20_EveryTPlanFromZero ==
    (Planned /\ sample_every_t > 0) =>
       /\ (WindowDuration # None /\ WindowDuration >= 0) =>
             IsFloorPlusOne(frames_planned, WindowDuration, sample_every_t)
       /\ frames_planned = 0 => WindowDuration = None

\* C20 amended: with every-T sampling, frames_planned is
\* floor(window duration / T) + 1 for every window duration > 0, and
\* frames_planned is 0 exactly when the duration is unknown and no end is
\* set, or when the window has no length (the start is at or after the end
\* of the known duration).
C20_EveryTPlan ==
    (Planned /\ sample_every_t > 0) =>
       /\ (WindowDuration # None /\ WindowDuration > 0) =>
             IsFloorPlusOne(frames_planned, WindowDuration, sample_every_t)
       /\ frames_planned = 0 <=>
             (WindowDuration = None \/ WindowDuration <= 0)

\* a sample every half second over the two seconds after the start
C20_Witness ==
    /\ Planned
    /\ sample_every_t = 500
    /\ start_time = 1000
    /\ end_time = None
    /\ meta.duration = 3000
    /\ frames_planned = 5

\* the hardware backend has built its command line in this run
HwCommandBuilt == \E i \in 1 .. Len(backends) : backends[i] = "hw"

\* both sampling settings are on
BothSamplings == sample_every_t > 0 /\ sample_every_n > 1

\* C21: when both T > 0 and N > 1 are set, time-based sampling wins in all
\* three places: the plan is the one of the window and T alone, the
\* hardware command carries the fixed-rate filter and no modulo selector,
\* and the software backend saves a frame exactly when its timestamp has
\* reached the next sample instant, whatever N is.
C21_TimeSamplingWins ==
    /\ [](BothSamplings =>
            /\ Planned =>
                  /\ (WindowDuration # None /\ WindowDuration > 0) =>
                        IsFloorPlusOne(frames_planned, WindowDuration,
                                       sample_every_t)
                  /\ (WindowDuration = None \/ WindowDuration <= 0) =>
                        frames_planned = 0
            /\ HwCommandBuilt => vf_filters = <<"fps">>)
    /\ [][(/\ BothSamplings
           /\ pc = "sw_loop"
           /\ frame_index' = frame_index + 1
           /\ pc' \in {"sw_loop", "sw_write"}) =>
              (pc' = "sw_write" <=> PosMs(frame_index') >= next_ms)]_vars

\* every second frame and every second asked for: after the fallback from
\* the hardware backend the second frame is about to be saved as well
C21_Witness ==
    /\ sample_every_t = 1000
    /\ sample_every_n = 2
    /\ HwCommandBuilt
    /\ vf_filters = <<"fps">>
    /\ pc = "sw_write"
    /\ frame_index = 2
    /\ saved = 1

\* the progress events of the hardware backend: those after its
\* announcement and before the fallback notice, if there is one
HwProgressAt ==
    {i \in ProgressAt :
        /\ \E j \in 1 .. i : events[j] = Message("gpu")
        /\ \A j \in FallbackAt : i < j}

\* C24: every progress event of the hardware backend emitted while
\* frames_planned > 0 reports a number of saved frames that is at most
\* frames_planned, the final progress after a successful hardware run
\* included, whatever counter the decoder has printed.
C24_HwProgressClamped ==
    frames_planned > 0 =>
       \A i \in HwProgressAt : events[i][2] <= frames_planned

\* the decoder has reported two frames for a plan of one
C24_Witness ==
    /\ pc = "hw_loop"
    /\ frames_planned = 1
    /\ saved = 2
    /\ Last(events) = Progress(1, 1)

\* the progress events of the software loop: those after the initial
\* progress(0, total) that follows the starting message, without the
\* closing one that precedes the final message
SwLoopProgressAt ==
    {i \in ProgressAt :
        /\ \E j \in SwStartAt : i > j + 1
        /\ i < Len(events) => events[i + 1] # Message("done")}

\* C25: in the software backend at most one progress event is emitted per
\* batch of 10 saved frames, plus one on the final frame, for every
\* sampling setting: the loop has emitted at most saved / 10 + 1 progress
\* events, however many frames were read without being saved.
C25_SwProgressThrottled ==
    Cardinality(SwLoopProgressAt) <= saved \div throttle + 1

\* C28: in the software backend with time-based sampling off, the frame
\* read with zero-based index i (frame_index before the read) is saved if
\* and only if i mod N = 0, which is every frame when N = 1; and while the
\* loop runs, after F = frame_index frames read, saved is ceil(F / N).
C28_EveryNSaves ==
    /\ []((sample_every_t = 0 /\ SwStarted /\ pc = "sw_loop") =>
            /\ saved * sample_every_n >= frame_index
            /\ (saved - 1) * sample_every_n < frame_index
            /\ sample_every_n = 1 => saved = frame_index)
    /\ [][(/\ sample_every_t = 0
           /\ pc = "sw_loop"
           /\ frame_index' = frame_index + 1
           /\ pc' \in {"sw_loop", "sw_write"}) =>
              (pc' = "sw_write" <=> frame_index % sample_every_n = 0)]_vars

\* five frames read, every second one saved: three saved
C28_Witness ==
    /\ sample_every_t = 0
    /\ sample_every_n = 2
    /\ pc = "sw_loop"
    /\ frame_index = 5
    /\ saved = 3

\* a read of the running loop under time-based sampling that stays in the
\* window
TimedRead ==
    /\ sample_every_t > 0
    /\ pc = "sw_loop"
    /\ frame_index' = frame_index + 1
    /\ pc' \in {"sw_loop", "sw_write"}

\* C29 as stated: with time-based sampling the first sample instant is the
\* first observed decoded timestamp, so the first frame read is saved and
\* the next instant is its timestamp plus T; after each save the schedule
\* advances by exactly T.
C29_AnchoredToFirstTimestamp ==
    /\ [][(TimedRead /\ frame_index = 0) =>
              (pc' = "sw_write" /\ next_ms' = PosMs(1) + sample_every_t)]_vars
    /\ [][(TimedRead /\ pc' = "sw_write") =>
              next_ms' = next_ms + sample_every_t]_vars

\* C29 amended: with time-based sampling the first sample instant is the
\* requested start (0 without one), whatever the first decoded timestamp
\* is: a frame is saved exactly when its timestamp has reached the next
\* instant, a save advances the schedule by exactly T and nothing else
\* moves it, so the instants are start + k * T.
C29_AnchoredToStart ==
    /\ []((sample_every_t > 0 /\ SwStarted /\ pc = "sw_loop") =>
            next_ms = StartS(start_time) + saved * sample_every_t)
    /\ [][TimedRead =>
              /\ pc' = "sw_write" <=> PosMs(frame_index') >= next_ms
              /\ pc' = "sw_write" => next_ms' = next_ms + sample_every_t
              /\ pc' = "sw_loop" => next_ms' = next_ms]_vars

\* the seek has left the capture at 0 with a start of two seconds: the
\* frames at 0 and at one second were skipped, the one at two seconds is
\* about to be saved and the next instant is three seconds
C29_Witness ==
    /\ sample_every_t = 1000
    /\ start_time = 2000
    /\ seek_ms = 0
    /\ pc = "sw_write"
    /\ frame_index = 3
    /\ saved = 0
    /\ next_ms = 3000

\* C30: all progress events of a run, in either backend, carry the same
\* total, the planner's frames_planned (0 when unknown); the software
\* backend's initial progress(0, total) included.
C30_OneProgressTotal ==
    \A i \in ProgressAt : events[i][3] = frames_planned

\* C27: in a run that has reached its planner the precise recount has been
\* called if and only if precision_count is set, and it is never called
\* otherwise, on any path of the run; when it was called and answered 0
\* the plan is made on the probe's frame count.
C27_PreciseOnlyOnRequest ==
    /\ precise # None => precision_count
    /\ (plans >= 1 /\ precision_count) => precise # None
    /\ plans = 0 => precise = None
    /\ (Planned /\ precise = 0) => plan_total_full = meta.frames

\* the recount was asked for and could not count: the plan is made on the
\* probe's count
C27_Witness ==
    /\ Planned
    /\ precision_count
    /\ precise = 0
    /\ meta.frames = MaxSwFrames
    /\ plan_total_full = MaxSwFrames
    /\ frames_in_range = MaxSwFrames

\* the writes of thread t
WritesOf(t) == {k \in 1 .. Len(writes) : writes[k].thread = t}

\* C23: in the Tk application with "Skip existing" on, every file written
\* is named by the index of its source frame, no file that was in the
\* output folder when its frame was reached is written, and the saved
\* counter of the thread is the number of files it has written.
C23_SkipExistingNeverOverwrites ==
    skip_existing_current =>
       /\ \A k \in 1 .. Len(writes) :
             /\ writes[k].name = writes[k].frame
             /\ ~writes[k].existed
       /\ \A t \in DOMAIN threads :
             threads[t].saved_count = Cardinality(WritesOf(t))

\* the folder held the file of frame 0: it was skipped and frame 1 was
\* written under its own index
C23_Witness ==
    /\ skip_existing_current
    /\ writes = <<[thread |-> 1, name |-> 1, frame |-> 1, existed |-> FALSE]>>
    /\ out_files = {0, 1}
    /\ threads[1].frame_index = 2
    /\ threads[1].saved_count = 1

\* the workers of the main window that were started and whose terminal
\* signal has not been handled by on_finished or on_error
InFlightQt == {w \in DOMAIN workers : workers[w] \in {"running", "emitted"}}

\* the threads of the Tk application that were started and whose
\* _enable_start_button has not run
InFlightTk == {t \in Started : t \notin handled}

\* C22: at most one extraction is in flight: under every interleaving of
\* Start, Cancel and close with the worker's signals, on_start and
\* start_processing make no second worker or thread between the start of
\* a run and the handling of its terminal event.
C22_OneWorkerInFlight ==
    /\ Cardinality(InFlightQt) <= 1
    /\ Cardinality(InFlightTk) <= 1

\* thread t has queued the callback that gives the Start button back, or
\* is past the finally block that queues it
TkRunOver(t) ==
    \/ t \in handled
    \/ \E i \in 1 .. Len(posts) : posts[i] = Post("enable_start", t)
    \/ threads[t].pc \in {"clear", "read_close", "end"}

SwProgressAt == {i \in ProgressAt : \E j \in SwStartAt : i > j}

\* C31: every progress event of the software backend with framesPlanned > 0
\* carries framesSaved <= framesPlanned, also when the video yields more
\* frames than the plan.
C31_SwProgressWithinPlan ==
    \A i \in SwProgressAt : events[i][3] > 0 => events[i][2] <= events[i][3]

\* C31 amended: every progress event of the software backend with
\* framesPlanned > 0 carries framesSaved <= framesPlanned, except the
\* events of the read loop at a multiple of 10 saved frames, which carry
\* the count as it is; the closing progress event is within the plan.
C31_SwProgressWithinPlanButBatches ==
    \A i \in SwProgressAt :
       events[i][3] > 0 =>
          \/ events[i][2] <= events[i][3]
          \/ i \in SwLoopProgressAt /\ events[i][2] % throttle = 0

\* a finished run that saved more frames than planned: the loop reported
\* the count beyond the plan and the closing event the plan
C31_Witness ==
    /\ pc = "done"
    /\ frames_planned > 0
    /\ saved > frames_planned
    /\ \E i \in SwLoopProgressAt : events[i] = Progress(saved, frames_planned)
    /\ \E i \in SwProgressAt :
          /\ i \notin SwLoopProgressAt
          /\ events[i] = Progress(frames_planned, frames_planned)

\* a software run with every-frame sampling that ended without cancel
\* after the capture had given at least the frames of the window from
\* start to end: frame_index counts the frames read after the seek, and
\* end_limit_frames is round((e - s) * r) for a known rate r and e > s
FullWindowRead ==
    /\ pc = "done"
    /\ SwStarted
    /\ Last(events) = Finished(TRUE, FALSE, out_dir, saved)
    /\ sample_every_n = 1
    /\ sample_every_t = 0
    /\ end_limit_frames # None
    /\ frame_index >= end_limit_frames

\* C32: a software run with every-frame sampling, start s, end e > s and
\* known rate r, on a video with at least round((e - s) * r) frames after
\* the seek point and without cancel, saves round((e - s) * r) frames,
\* the length of the planned window and not one fewer.
C32_SavesWholeWindow ==
    FullWindowRead => saved = end_limit_frames

\* the run is about to choose its backend and cancel() has been called
CanceledBeforeSelection == pc = "select" /\ cancel

\* C33: when cancel() was called before the run reached backend selection,
\* the run writes no frame file and its terminal event is
\* finished(success=False, canceled=True, outDir, 0); the hardware decoder
\* is not left to write frames.  A run that the environment fails (a
\* capture that cannot be opened) ends with its error and is left aside.
C33_EarlyCancelWritesNothing ==
    [](CanceledBeforeSelection =>
          [](/\ Files = {}
             /\ pc = "done" =>
                   \/ IsError(Last(events))
                   \/ Last(events) = Finished(FALSE, TRUE, out_dir, 0)))

\* C34: in the Tk application, under every interleaving of the main thread
\* and the extraction thread, cancel_processing and _on_close never call
\* set() on a cancel_event that the finishing thread has reset to None:
\* the test "cancel_event is not None" and the set() after the
\* confirmation box refer to a live event.
C34_SetOnLiveEvent == ~set_on_none

\* C35: in the Tk application, once the operator has confirmed "Cancel and
\* close the app?" (the box opens only while an extraction is in progress:
\* cancel_event is live and not set), the window is eventually destroyed,
\* whatever the interleaving of the confirmation with the last statements
\* of the thread, which drop cancel_event and then read _close_after_cancel
\* once.
C35_ConfirmedCloseDestroys == close_after_cancel ~> destroyed

\* the worker the main window made last, once the slot of its terminal
\* signal has run, in a window that is still open
LastRunHandled ==
    /\ ~closed
    /\ Made # {}
    /\ workers[Cardinality(Made)] = "handled"

\* C36: in the main window, once the terminal event of a run has been
\* handled, by on_finished or by on_error, the window is idle again:
\* Start is enabled, Cancel is disabled, and the window holds no reference
\* to the worker, so that a later Cancel click or close does not touch it.
C36_IdleAfterTerminal ==
    LastRunHandled => (start_btn /\ ~cancel_btn /\ mw_worker = None)
====
